---- MODULE Spec2Model ----
(***************************************************************************)
(* Model of the Synapsis-ai server: the repository analysis pipeline       *)
(* (RepositoriesService.startAnalysis, AnalysisService.analyzeRepository,  *)
(* AnalysisService.analyzeRepositoryWithStreaming) and the search          *)
(* endpoints (SearchController, SearchService.searchWithStreaming).        *)
(*                                                                         *)
(* Every request is a process.  A step of a process is the resolution of   *)
(* one awaited call together with the synchronous code that follows it up  *)
(* to the next await, so that the steps of concurrent requests interleave  *)
(* exactly where the Node.js event loop can interleave them.               *)
(***************************************************************************)
EXTENDS Integers, Sequences, FiniteSets, TLC

\* ---------------------------------------------------------------- bounds
\* request slots: how many requests can be in flight at the same time
NumProcs == 2
\* how many requests are issued in one behaviour
MaxRequests == 2
\* how many calls to a collaborator (source browser, generator, store,
\* progress sink) may fail in one behaviour
MaxFaults == 2
\* how many AST files the searchable analyses hold in total
MaxFiles == 2
\* how many per-file results scoreAndRankResults is given
MaxRaw == 6
\* how many generated source files / index files a tree can hold on top of
\* the fixed entries (above the cap of 30 medium-priority paths)
MaxGenerated == 31
\* how many search terms the generated patterns hold
MaxTerms == 2
\* how many index files (high-priority code files) a repository holds
MaxCodeFiles == 60
\* how many per-file results the long argument lists of scoreAndRankResults
\* hold (above the 50 results it returns)
MaxRanked == 52
\* how many Analysis rows a repository has
MaxAnalyses == 2
\* how many files generateAST is given
MaxParseFiles == 3

\* the largest maxRetries a caller of LLMService.generate passes
MaxRetryOption == 4

Procs == 1..NumProcs

\* repositories present in the store, and the ids a request may carry
StoredRepos == {"r1"}
RepoIds == {"r1", "missing"}

\* ------------------------------------------------------- error messages
ErrNotFound == "Repository not found"
ErrTree     == "tree fetch failed"
ErrContent  == "content fetch failed"
ErrLLM      == "LLM generation failed"
ErrStore    == "store write failed"
ErrSink     == "progress sink failed"
ErrStoreRead == "store read failed"

\* ------------------------------------------------- summarizer results
\* What the generation call returns when it succeeds, and the value the
\* local variable is initialised with (the default kept on failure).
ExtractedFeatures == <<"auth">>
DefaultFeatures   == <<>>
ExtractedArchitecture == "MVC"
DefaultArchitecture   == "unknown"
ExtractedLanguages == <<"TypeScript">>
DefaultLanguages   == <<>>

VARIABLES
  analyses,      \* Analysis table: sequence of records, index = analysis.id
  lastAnalyzed,  \* Repository.lastAnalyzed: id of the run that wrote it, 0 = null
  pc,            \* position of each request
  kind,          \* "start" (POST :id/analyze) or "stream" (GET :id/analyze/stream)
  repoOf,        \* repositoryId carried by the request
  myId,          \* analysis.id held by the run, 0 before create
  err,           \* error captured / propagated by the run, "none" if none
  loc,           \* local variables features / structure / techStack of the run
  sumRes,        \* outcome of each summarizer call: "pending", "ok", "failed"
  events,        \* events delivered to the progress sink / written to the response
  ended,         \* response.end() has been called
  response,      \* JSON body returned by POST :id/analyze
  outcome,       \* how the pipeline run ended: "none", "resolved", "rejected"
  fatalFault,    \* a stage-fatal call of this run (tree fetch, content fetch,
                 \* summary generation, store write) has failed
  sinkFault,     \* the progress callback has thrown during this run
  faults,        \* number of failed collaborator calls so far
  requests,      \* number of requests issued so far
  reqNo          \* the number of the request a slot is serving, 0 = none

avars == <<analyses, lastAnalyzed, pc, kind, repoOf, myId, err, loc, sumRes,
           events, ended, response, outcome, fatalFault, sinkFault, faults,
           requests, reqNo>>

\* ---- one search request (GET search/stream, POST search/stream, POST search)
VARIABLES
  spc,           \* position of the search request
  endpoint,      \* which SearchController method serves it
  query,         \* the query string of the request
  intentResult,  \* result of detectIntent: [intent, suggested]
  calls,         \* how often each collaborator / stage has been invoked
  rawCount,      \* number of per-file results returned by searchASTData
  searchResult,  \* the SearchResponse returned by searchWithStreaming
  searchErr,     \* message of the error thrown by searchWithStreaming
  failedAt,      \* the stage whose failure left searchWithStreaming, or "none"
  sse,           \* events written to the response of a stream endpoint
  sseOpen,       \* the event-stream headers have been set
  sseEnded,      \* response.end() has been called
  body           \* JSON body returned by a non-stream response

svars == <<spc, endpoint, query, intentResult, calls, rawCount, searchResult,
           searchErr, failedAt, sse, sseOpen, sseEnded, body>>

\* ---- one call of SearchService.scoreAndRankResults
VARIABLES
  rpc,           \* position of the call: "idle", "scoring", "done"
  rawResults,    \* the argument: per-file results of searchASTData
  batchStart,    \* i of the outer loop (0-based index of the batch's first file)
  batchPos,      \* number of files of the current batch already processed
  scoredResults, \* the local array the loops push to
  llmOutcome,    \* what calculateMatchScore did for each processed file
  ranked         \* the returned array

rvars == <<rpc, rawResults, batchStart, batchPos, scoredResults, llmOutcome,
           ranked>>

\* ---- one call of AnalysisService.getImportantFiles
VARIABLES
  fpc,           \* position of the call: "idle", "done"
  tree,          \* the argument: GitHubTree[] (records with path and type)
  important      \* the returned paths

fvars == <<fpc, tree, important>>

\* ---- the match scores of one AST element (SearchService.searchFileAST)
VARIABLES
  mpc,            \* "idle", "scored", "edited" (a term was added), "rescored"
  element,        \* the AST element: [name, text, isJSDoc]
  searchPatterns, \* [searchTerms, codePatterns, frameworkHints]
  originalQuery,  \* the query
  scores,         \* [basic, import, comment]: the scores of the last scoring
  prevScores      \* the scores of the scoring before the element was edited

mvars == <<mpc, element, searchPatterns, originalQuery, scores, prevScores>>

\* ---- the code metrics of one pipeline run
VARIABLES
  cpc,           \* "idle", "done"
  entryPoint,    \* the pipeline function that fetched the contents
  repoTree,      \* the tree of the repository
  fileContents,  \* what getMultipleFilesContent returned: [path, content]
  codeMetrics    \* the returned CodeMetrics

cvars == <<cpc, entryPoint, repoTree, fileContents, codeMetrics>>

\* ---- one call of SearchService.searchFileAST
VARIABLES
  xpc,           \* "idle", "done"
  fileAst,       \* the AST artifact of the file
  filePatterns,  \* the searchPatterns argument
  fileQuery,     \* the originalQuery argument
  fileMatches    \* the returned matches

xvars == <<xpc, fileAst, filePatterns, fileQuery, fileMatches>>

\* ---- the repository lookup, the scan and the ranking of one code search
VARIABLES
  qpc,           \* "idle", "queried", "scanned", "done"
  repoStore,     \* the Repository rows with their Analysis rows
  searchQuery,   \* the repositoryIds and filters of the request
  repositories,  \* what getSearchableRepositories returned
  scannedFiles,  \* the files searchFileAST was called for
  rawFound,      \* what searchASTData returned
  foundScores    \* the overallScore scoreAndRankResults gave each result

qvars == <<qpc, repoStore, searchQuery, repositories, scannedFiles, rawFound,
           foundScores>>

\* ---- one call of AnalysisService.generateAST
VARIABLES
  gpc,           \* "idle", "parsing", "done"
  astImpl,       \* which generateAST runs: "treeSitter" or "babel"
  parseFiles,    \* the fileContents argument: [path, content]
  parseIndex,    \* number of files the loop has gone through
  parseOutcome,  \* what the parser did for each of them
  astFiles       \* astData.files

gvars == <<gpc, astImpl, parseFiles, parseIndex, parseOutcome, astFiles>>

\* ---- one call of LLMService.generate
VARIABLES
  lpc,           \* "idle", "calling", "waiting", "returned", "threw"
  llmImpl,       \* which LLMService runs: "generate" or "retryOperation"
  maxRetries,    \* maxRetries of generate, options.maxAttempts of retryOperation
  attempt,       \* the loop variable attempt
  attempts,      \* what each settled attempt did
  delays,        \* the timeouts the call has set, in milliseconds
  llmResult      \* what the call returned or threw

lvars == <<lpc, llmImpl, maxRetries, attempt, attempts, delays, llmResult>>

\* the state of the calls of the pure functions
pvars == <<rvars, fvars, mvars, cvars, xvars, qvars, gvars, lvars>>

vars == <<avars, svars, pvars>>

NoResponse == [message |-> "none", analysis |-> 0]

InitLoc == [features |-> DefaultFeatures,
            architecture |-> DefaultArchitecture,
            languages |-> DefaultLanguages]

InitSum == [features |-> "pending", structure |-> "pending", techStack |-> "pending"]

AInit ==
  /\ analyses = <<>>
  /\ lastAnalyzed = [r \in StoredRepos |-> 0]
  /\ pc = [p \in Procs |-> "idle"]
  /\ kind = [p \in Procs |-> "none"]
  /\ repoOf = [p \in Procs |-> "none"]
  /\ myId = [p \in Procs |-> 0]
  /\ err = [p \in Procs |-> "none"]
  /\ loc = [p \in Procs |-> InitLoc]
  /\ sumRes = [p \in Procs |-> InitSum]
  /\ events = [p \in Procs |-> <<>>]
  /\ ended = [p \in Procs |-> FALSE]
  /\ response = [p \in Procs |-> NoResponse]
  /\ outcome = [p \in Procs |-> "none"]
  /\ fatalFault = [p \in Procs |-> FALSE]
  /\ sinkFault = [p \in Procs |-> FALSE]
  /\ faults = 0
  /\ requests = 0
  /\ reqNo = [p \in Procs |-> 0]

\* ------------------------------------------------------------ the store
\* RepositoryFindUnique whose result is not tested for null
RepositoryFindUnique_any(id) == TRUE

\* prisma.repository.findUnique({ where: { id } })
RepositoryFindUnique(id) == id \in StoredRepos

\* FindInProgress with the wrong status in the where clause
FindInProgress_wrongStatus(r) ==
  {i \in 1..Len(analyses) :
     analyses[i].repositoryId = r /\ analyses[i].status = "COMPLETED"}

\* prisma.analysis.findFirst({ where: { repositoryId, status: IN_PROGRESS } }):
\* the ids of the matching records (the query returns one of them, or null)
FindInProgress(r) ==
  {i \in 1..Len(analyses) :
     analyses[i].repositoryId = r /\ analyses[i].status = "IN_PROGRESS"}

\* prisma.analysis.create({ data: { repositoryId, status: IN_PROGRESS } })
NewAnalysis(r, n) ==
  [repositoryId |-> r, status |-> "IN_PROGRESS", errorMessage |-> "none",
   features |-> <<>>, architecture |-> "none", languages |-> <<>>,
   createdBy |-> n, writes |-> 1]

\* prisma.analysis.update({ where: { id }, data: { status: COMPLETED, ... } })
CompletedUpdate(a, l) ==
  [a EXCEPT !.status = "COMPLETED", !.features = l.features,
            !.architecture = l.architecture, !.languages = l.languages,
            !.writes = @ + 1]

\* prisma.analysis.update({ where: { id }, data: { status: FAILED, errorMessage } })
FailedUpdate(a, msg) ==
  [a EXCEPT !.status = "FAILED", !.errorMessage = msg, !.writes = @ + 1]

\* an update addressed by the repository of the run: the newest Analysis
\* record of that repository
UpdateTarget_byRepository(p) ==
  CHOOSE i \in 1..Len(analyses) :
    /\ analyses[i].repositoryId = repoOf[p]
    /\ \A j \in 1..Len(analyses) :
         analyses[j].repositoryId = repoOf[p] => j <= i

\* where: { id: analysis.id } of both updates of a run
UpdateTarget(p) == myId[p]

\* ------------------------------------------------------ progress events
StatusEvent(n) ==
  [event |-> "status", step |-> n, totalSteps |-> 7, type |-> "none",
   detail |-> "IN_PROGRESS"]

ProgressEvent(t, d) ==
  [event |-> "progress", step |-> 0, totalSteps |-> 0, type |-> t, detail |-> d]

CompleteEvent ==
  [event |-> "complete", step |-> 0, totalSteps |-> 0, type |-> "none",
   detail |-> "COMPLETED"]

ErrorEvent(msg) ==
  [event |-> "error", step |-> 0, totalSteps |-> 0, type |-> "none",
   detail |-> msg]

\* streamCallback(...) called for each event of evs in turn; the k-th call
\* throws (k = 0: none throws), the calls before it have delivered.
Delivered(evs, k) == IF k = 0 THEN evs ELSE SubSeq(evs, 1, k - 1)

\* The try/catch around one summarizer of analyzeRepositoryWithStreaming
\* followed by the synchronous callbacks after it (after): the possible
\* deliveries, with threw = an exception leaves the block (to the outer
\* catch) and throws = the number of callbacks that have thrown.
SummarizerDeliveries(t, res, after) ==
  LET okEv == ProgressEvent(t, "ok")
      skEv == ProgressEvent(t, "skipped")
      tail(pre, n) ==
        {[evs |-> pre \o Delivered(after, k), threw |-> k # 0,
          throws |-> IF k = 0 THEN n ELSE n + 1] : k \in 0..Len(after)}
  IN IF res = "ok"
       THEN tail(<<okEv>>, 0) \cup tail(<<skEv>>, 1)
            \cup {[evs |-> <<>>, threw |-> TRUE, throws |-> 2]}
       ELSE tail(<<skEv>>, 0)
            \cup {[evs |-> <<>>, threw |-> TRUE, throws |-> 1]}

\* n more collaborator calls fail in this step
Fault(n) == faults + n <= MaxFaults /\ faults' = faults + n

\* ------------------------------------------------------------- requests
\* POST repositories/:id/analyze and GET repositories/:id/analyze/stream
Request(p) ==
  /\ pc[p] = "idle"
  /\ UNCHANGED <<svars, pvars>>
  /\ requests < MaxRequests
  /\ requests' = requests + 1
  /\ reqNo' = [reqNo EXCEPT ![p] = requests + 1]
  /\ \E k \in {"start", "stream"}, r \in RepoIds :
       /\ kind' = [kind EXCEPT ![p] = k]
       /\ repoOf' = [repoOf EXCEPT ![p] = r]
       /\ pc' = [pc EXCEPT ![p] = IF k = "start" THEN "sa_findUnique"
                                               ELSE "ws_findUnique"]
  /\ UNCHANGED <<analyses, lastAnalyzed, myId, err, loc, sumRes, events, ended,
                 response, outcome, fatalFault, sinkFault, faults>>

\* --------------------------------------- RepositoriesService.startAnalysis
startAnalysis_findUnique(p) ==
  /\ pc[p] = "sa_findUnique"
  /\ UNCHANGED <<requests, reqNo, svars, pvars>>
  /\ IF RepositoryFindUnique(repoOf[p])
       THEN /\ pc' = [pc EXCEPT ![p] = "sa_findFirst"]
            /\ UNCHANGED <<err, response>>
       ELSE /\ pc' = [pc EXCEPT ![p] = "done"]
            /\ err' = [err EXCEPT ![p] = ErrNotFound]
            /\ response' = [response EXCEPT ![p] =
                 [message |-> "Failed to start analysis: Repository not found",
                  analysis |-> 0]]
  /\ UNCHANGED <<analyses, lastAnalyzed, kind, repoOf, myId, loc, sumRes, events,
                 ended, outcome, fatalFault, sinkFault, faults>>

startAnalysis_findFirst(p) ==
  /\ pc[p] = "sa_findFirst"
  /\ UNCHANGED <<requests, reqNo, svars, pvars>>
  /\ LET existing == FindInProgress(repoOf[p])
     IN IF existing # {}
          THEN \E i \in existing :
                 /\ response' = [response EXCEPT ![p] =
                      [message |-> "Analysis already in progress", analysis |-> i]]
                 /\ pc' = [pc EXCEPT ![p] = "done"]
          ELSE /\ response' = [response EXCEPT ![p] =
                    [message |-> "Analysis started", analysis |-> 0]]
               /\ pc' = [pc EXCEPT ![p] = "ar_findUnique"]
  /\ UNCHANGED <<analyses, lastAnalyzed, kind, repoOf, myId, err, loc, sumRes,
                 events, ended, outcome, fatalFault, sinkFault, faults>>

\* ------------------------------------------------ shared step operators
\* The run leaves its try block (or a statement before it) with error e.
\* to = the position reached: the catch block, or the caller when the
\* statement is outside the try block.
Raise(p, e, to, fatal, sink) ==
  /\ err' = [err EXCEPT ![p] = e]
  /\ pc' = [pc EXCEPT ![p] = to]
  /\ fatalFault' = [fatalFault EXCEPT ![p] = @ \/ fatal]
  /\ sinkFault' = [sinkFault EXCEPT ![p] = @ \/ sink]

\* ... because one collaborator call has failed
Throw(p, e, to, fatal, sink) == Fault(1) /\ Raise(p, e, to, fatal, sink)

\* The run ends: the promise of analyzeRepository[WithStreaming] settles.
Settle(p, how, to) ==
  /\ outcome' = [outcome EXCEPT ![p] = how]
  /\ pc' = [pc EXCEPT ![p] = to]

\* ------------------------- AnalysisService.analyzeRepositoryWithStreaming
\* The synchronous callbacks evs follow the awaited call that just resolved;
\* the run goes on to next, or to the catch block when a callback throws.
DeliverThen(p, evs, next) ==
  \E k \in 0..Len(evs) :
    /\ events' = [events EXCEPT ![p] = @ \o Delivered(evs, k)]
    /\ IF k = 0
         THEN /\ pc' = [pc EXCEPT ![p] = next]
              /\ UNCHANGED <<err, fatalFault, sinkFault, faults>>
         ELSE Throw(p, ErrSink, "ws_catch", FALSE, TRUE)

analyzeRepositoryWithStreaming_findUnique(p) ==
  /\ pc[p] = "ws_findUnique"
  /\ UNCHANGED <<requests, reqNo, svars, pvars>>
  /\ IF RepositoryFindUnique(repoOf[p])
       THEN /\ pc' = [pc EXCEPT ![p] = "ws_create"]
            /\ UNCHANGED <<err, outcome>>
       ELSE /\ err' = [err EXCEPT ![p] = ErrNotFound]
            /\ Settle(p, "rejected", "ctl_rejected")
  /\ UNCHANGED <<analyses, lastAnalyzed, kind, repoOf, myId, loc, sumRes, events,
                 ended, response, fatalFault, sinkFault, faults>>

analyzeRepositoryWithStreaming_create(p) ==
  /\ pc[p] = "ws_create"
  /\ UNCHANGED <<requests, reqNo, svars, pvars>>
  /\ \/ /\ analyses' = Append(analyses, NewAnalysis(repoOf[p], reqNo[p]))
        /\ myId' = [myId EXCEPT ![p] = Len(analyses) + 1]
        /\ DeliverThen(p, <<StatusEvent(1)>>, "ws_tree")
        /\ UNCHANGED outcome
     \/ /\ err' = [err EXCEPT ![p] = ErrStore]
        /\ fatalFault' = [fatalFault EXCEPT ![p] = TRUE]
        /\ Fault(1)
        /\ Settle(p, "rejected", "ctl_rejected")
        /\ UNCHANGED <<analyses, myId, events, sinkFault>>
  /\ UNCHANGED <<lastAnalyzed, kind, repoOf, loc, sumRes, ended, response>>

analyzeRepositoryWithStreaming_tree(p) ==
  /\ pc[p] = "ws_tree"
  /\ UNCHANGED <<requests, reqNo, svars, pvars>>
  /\ \/ DeliverThen(p, <<StatusEvent(2), StatusEvent(3)>>, "ws_content")
     \/ /\ Throw(p, ErrTree, "ws_catch", TRUE, FALSE)
        /\ UNCHANGED events
  /\ UNCHANGED <<analyses, lastAnalyzed, kind, repoOf, myId, loc, sumRes, ended,
                 response, outcome>>

analyzeRepositoryWithStreaming_content(p) ==
  /\ pc[p] = "ws_content"
  /\ UNCHANGED <<requests, reqNo, svars, pvars>>
  /\ \/ DeliverThen(p, <<StatusEvent(4)>>, "ws_features")
     \/ /\ Throw(p, ErrContent, "ws_catch", TRUE, FALSE)
        /\ UNCHANGED events
  /\ UNCHANGED <<analyses, lastAnalyzed, kind, repoOf, myId, loc, sumRes, ended,
                 response, outcome>>

\* One summarizer stage: the awaited generation call resolves (the local
\* variable is assigned) or rejects (it keeps its default), the progress
\* callbacks of the inner try/catch run, then the callbacks after it.
SummarizerStage(p, here, field, t, value, after, next) ==
  /\ pc[p] = here
  /\ UNCHANGED <<requests, reqNo, svars, pvars>>
  /\ \E res \in {"ok", "failed"} :
       /\ sumRes' = [sumRes EXCEPT ![p][t] = res]
       /\ loc' = [loc EXCEPT ![p][field] = IF res = "ok" THEN value ELSE @]
       /\ \E d \in SummarizerDeliveries(t, res, after) :
            /\ events' = [events EXCEPT ![p] = @ \o d.evs]
            /\ Fault(d.throws + IF res = "failed" THEN 1 ELSE 0)
            /\ IF d.threw
                 THEN Raise(p, ErrSink, "ws_catch", FALSE, TRUE)
                 ELSE /\ pc' = [pc EXCEPT ![p] = next]
                      /\ sinkFault' = [sinkFault EXCEPT ![p] = @ \/ d.throws > 0]
                      /\ UNCHANGED <<err, fatalFault>>
  /\ UNCHANGED <<analyses, lastAnalyzed, kind, repoOf, myId, ended, response,
                 outcome>>

analyzeRepositoryWithStreaming_features(p) ==
  SummarizerStage(p, "ws_features", "features", "features", ExtractedFeatures,
                  <<StatusEvent(5)>>, "ws_structure")

analyzeRepositoryWithStreaming_structure(p) ==
  SummarizerStage(p, "ws_structure", "architecture", "structure",
                  ExtractedArchitecture, <<StatusEvent(6)>>, "ws_techStack")

analyzeRepositoryWithStreaming_techStack(p) ==
  SummarizerStage(p, "ws_techStack", "languages", "techStack",
                  ExtractedLanguages, <<>>, "ws_ast")

\* Promise.all([generateAST, calculateCodeMetrics]): generateAST catches
\* every parse error itself, so the pair always resolves.
analyzeRepositoryWithStreaming_ast(p) ==
  /\ pc[p] = "ws_ast"
  /\ UNCHANGED <<requests, reqNo, svars, pvars>>
  /\ DeliverThen(p, <<StatusEvent(7)>>, "ws_summary")
  /\ UNCHANGED <<analyses, lastAnalyzed, kind, repoOf, myId, loc, sumRes, ended,
                 response, outcome>>

\* ---- the tail shared by both pipelines (same statements in both functions)
\* await generateSummary(...)
SummaryStep(p, here, next, catch) ==
  /\ pc[p] = here
  /\ UNCHANGED <<requests, reqNo, svars, pvars>>
  /\ \/ /\ pc' = [pc EXCEPT ![p] = next]
        /\ UNCHANGED <<err, fatalFault, sinkFault, faults>>
     \/ Throw(p, ErrLLM, catch, TRUE, FALSE)
  /\ UNCHANGED <<analyses, lastAnalyzed, kind, repoOf, myId, loc, sumRes, events,
                 ended, response, outcome>>

\* await prisma.analysis.update({ ... status: COMPLETED ... })
CompleteStep(p, here, next, catch) ==
  /\ pc[p] = here
  /\ UNCHANGED <<requests, reqNo, svars, pvars>>
  /\ \/ /\ analyses' = [analyses EXCEPT ![UpdateTarget(p)] =
                          CompletedUpdate(@, loc[p])]
        /\ pc' = [pc EXCEPT ![p] = next]
        /\ UNCHANGED <<err, fatalFault, sinkFault, faults>>
     \/ /\ Throw(p, ErrStore, catch, TRUE, FALSE)
        /\ UNCHANGED analyses
  /\ UNCHANGED <<lastAnalyzed, kind, repoOf, myId, loc, sumRes, events, ended,
                 response, outcome>>

\* await prisma.repository.update({ ... lastAnalyzed: new Date() })
LastAnalyzedStep(p, here, resolvedTo, catch) ==
  /\ pc[p] = here
  /\ UNCHANGED <<requests, reqNo, svars, pvars>>
  /\ \/ /\ lastAnalyzed' = [lastAnalyzed EXCEPT ![repoOf[p]] = myId[p]]
        /\ Settle(p, "resolved", resolvedTo)
        /\ UNCHANGED <<err, fatalFault, sinkFault, faults>>
     \/ /\ Throw(p, ErrStore, catch, TRUE, FALSE)
        /\ UNCHANGED <<lastAnalyzed, outcome>>
  /\ UNCHANGED <<analyses, kind, repoOf, myId, loc, sumRes, events, ended,
                 response>>

\* catch (error) { await prisma.analysis.update({ status: FAILED,
\* errorMessage: error.message }); throw error }
CatchStep(p, here, rejectedTo) ==
  /\ pc[p] = here
  /\ UNCHANGED <<requests, reqNo, svars, pvars>>
  /\ \/ /\ analyses' = [analyses EXCEPT ![UpdateTarget(p)] =
                          FailedUpdate(@, err[p])]
        /\ UNCHANGED <<err, fatalFault, faults>>
     \/ /\ err' = [err EXCEPT ![p] = ErrStore]
        /\ fatalFault' = [fatalFault EXCEPT ![p] = TRUE]
        /\ Fault(1)
        /\ UNCHANGED analyses
  /\ Settle(p, "rejected", rejectedTo)
  /\ UNCHANGED <<lastAnalyzed, kind, repoOf, myId, loc, sumRes, events, ended,
                 response, sinkFault>>

analyzeRepositoryWithStreaming_summary(p) ==
  SummaryStep(p, "ws_summary", "ws_complete", "ws_catch")

analyzeRepositoryWithStreaming_complete(p) ==
  CompleteStep(p, "ws_complete", "ws_lastAnalyzed", "ws_catch")

analyzeRepositoryWithStreaming_lastAnalyzed(p) ==
  LastAnalyzedStep(p, "ws_lastAnalyzed", "ctl_resolved", "ws_catch")

analyzeRepositoryWithStreaming_catch(p) ==
  CatchStep(p, "ws_catch", "ctl_rejected")

\* ------------------------------------- AnalysisService.analyzeRepository
\* (started in the background by startAnalysis; its rejection is logged)
analyzeRepository_findUnique(p) ==
  /\ pc[p] = "ar_findUnique"
  /\ UNCHANGED <<requests, reqNo, svars, pvars>>
  /\ IF RepositoryFindUnique(repoOf[p])
       THEN /\ pc' = [pc EXCEPT ![p] = "ar_create"]
            /\ UNCHANGED <<err, outcome>>
       ELSE /\ err' = [err EXCEPT ![p] = ErrNotFound]
            /\ Settle(p, "rejected", "done")
  /\ UNCHANGED <<analyses, lastAnalyzed, kind, repoOf, myId, loc, sumRes, events,
                 ended, response, fatalFault, sinkFault, faults>>

analyzeRepository_create(p) ==
  /\ pc[p] = "ar_create"
  /\ UNCHANGED <<requests, reqNo, svars, pvars>>
  /\ \/ /\ analyses' = Append(analyses, NewAnalysis(repoOf[p], reqNo[p]))
        /\ myId' = [myId EXCEPT ![p] = Len(analyses) + 1]
        /\ pc' = [pc EXCEPT ![p] = "ar_tree"]
        /\ UNCHANGED <<err, fatalFault, outcome, faults>>
     \/ /\ err' = [err EXCEPT ![p] = ErrStore]
        /\ fatalFault' = [fatalFault EXCEPT ![p] = TRUE]
        /\ Fault(1)
        /\ Settle(p, "rejected", "done")
        /\ UNCHANGED <<analyses, myId>>
  /\ UNCHANGED <<lastAnalyzed, kind, repoOf, loc, sumRes, events, ended, response,
                 sinkFault>>

analyzeRepository_tree(p) ==
  /\ pc[p] = "ar_tree"
  /\ UNCHANGED <<requests, reqNo, svars, pvars>>
  /\ \/ /\ pc' = [pc EXCEPT ![p] = "ar_content"]
        /\ UNCHANGED <<err, fatalFault, sinkFault, faults>>
     \/ Throw(p, ErrTree, "ar_catch", TRUE, FALSE)
  /\ UNCHANGED <<analyses, lastAnalyzed, kind, repoOf, myId, loc, sumRes, events,
                 ended, response, outcome>>

analyzeRepository_content(p) ==
  /\ pc[p] = "ar_content"
  /\ UNCHANGED <<requests, reqNo, svars, pvars>>
  /\ \/ /\ pc' = [pc EXCEPT ![p] = "ar_llm"]
        /\ UNCHANGED <<err, fatalFault, sinkFault, faults>>
     \/ Throw(p, ErrContent, "ar_catch", TRUE, FALSE)
  /\ UNCHANGED <<analyses, lastAnalyzed, kind, repoOf, myId, loc, sumRes, events,
                 ended, response, outcome>>

\* const [features, structure, techStack, astData] = await Promise.all([...]):
\* the destructuring assigns only when all four promises resolve; one
\* rejection rejects the whole and is caught by the outer catch.
analyzeRepository_llm(p) ==
  /\ pc[p] = "ar_llm"
  /\ UNCHANGED <<requests, reqNo, svars, pvars>>
  /\ \E rf \in {"ok", "failed"}, rs \in {"ok", "failed"}, rt \in {"ok", "failed"} :
       /\ sumRes' = [sumRes EXCEPT ![p] =
                       [features |-> rf, structure |-> rs, techStack |-> rt]]
       /\ Fault(Cardinality({t \in {"features", "structure", "techStack"} :
                              sumRes'[p][t] = "failed"}))
       /\ IF rf = "ok" /\ rs = "ok" /\ rt = "ok"
            THEN /\ loc' = [loc EXCEPT ![p] =
                             [features |-> ExtractedFeatures,
                              architecture |-> ExtractedArchitecture,
                              languages |-> ExtractedLanguages]]
                 /\ pc' = [pc EXCEPT ![p] = "ar_summary"]
                 /\ UNCHANGED <<err, fatalFault, sinkFault>>
            ELSE /\ Raise(p, ErrLLM, "ar_catch", FALSE, FALSE)
                 /\ UNCHANGED loc
  /\ UNCHANGED <<analyses, lastAnalyzed, kind, repoOf, myId, events, ended,
                 response, outcome>>

analyzeRepository_summary(p) ==
  SummaryStep(p, "ar_summary", "ar_complete", "ar_catch")

analyzeRepository_complete(p) ==
  CompleteStep(p, "ar_complete", "ar_lastAnalyzed", "ar_catch")

analyzeRepository_lastAnalyzed(p) ==
  LastAnalyzedStep(p, "ar_lastAnalyzed", "done", "ar_catch")

analyzeRepository_catch(p) ==
  CatchStep(p, "ar_catch", "done")

\* ----------------------------- GET repositories/:id/analyze/stream, the end
\* RepositoriesService.startAnalysisWithStreaming after the run has resolved:
\* the terminal event of the stream, then response.end().
startAnalysisWithStreaming_resolved(p) ==
  /\ pc[p] = "ctl_resolved"
  /\ UNCHANGED <<requests, reqNo, svars, pvars>>
  /\ events' = [events EXCEPT ![p] = Append(@, CompleteEvent)]
  /\ ended' = [ended EXCEPT ![p] = TRUE]
  /\ pc' = [pc EXCEPT ![p] = "done"]
  /\ UNCHANGED <<analyses, lastAnalyzed, kind, repoOf, myId, err, loc, sumRes,
                 response, outcome, fatalFault, sinkFault, faults>>

\* analyzeRepositoryStream_catch that ends the response without the event
analyzeRepositoryStream_catch_noEvent(p) ==
  /\ pc[p] = "ctl_rejected"
  /\ UNCHANGED <<requests, reqNo, svars, pvars>>
  /\ ended' = [ended EXCEPT ![p] = TRUE]
  /\ pc' = [pc EXCEPT ![p] = "done"]
  /\ UNCHANGED <<analyses, lastAnalyzed, kind, repoOf, myId, err, loc, sumRes,
                 events, response, outcome, fatalFault, sinkFault, faults>>

\* RepositoriesController.analyzeRepositoryStream, catch (error):
\* response.write('event: error ...'); response.end()
analyzeRepositoryStream_catch(p) ==
  /\ pc[p] = "ctl_rejected"
  /\ UNCHANGED <<requests, reqNo, svars, pvars>>
  /\ events' = [events EXCEPT ![p] = Append(@, ErrorEvent(err[p]))]
  /\ ended' = [ended EXCEPT ![p] = TRUE]
  /\ pc' = [pc EXCEPT ![p] = "done"]
  /\ UNCHANGED <<analyses, lastAnalyzed, kind, repoOf, myId, err, loc, sumRes,
                 response, outcome, fatalFault, sinkFault, faults>>

\* The request is over and its slot is free for another request.
Recycle(p) ==
  /\ pc[p] = "done"
  /\ UNCHANGED <<svars, pvars>>
  /\ pc' = [pc EXCEPT ![p] = "idle"]
  /\ kind' = [kind EXCEPT ![p] = "none"]
  /\ repoOf' = [repoOf EXCEPT ![p] = "none"]
  /\ myId' = [myId EXCEPT ![p] = 0]
  /\ err' = [err EXCEPT ![p] = "none"]
  /\ loc' = [loc EXCEPT ![p] = InitLoc]
  /\ sumRes' = [sumRes EXCEPT ![p] = InitSum]
  /\ events' = [events EXCEPT ![p] = <<>>]
  /\ ended' = [ended EXCEPT ![p] = FALSE]
  /\ response' = [response EXCEPT ![p] = NoResponse]
  /\ outcome' = [outcome EXCEPT ![p] = "none"]
  /\ fatalFault' = [fatalFault EXCEPT ![p] = FALSE]
  /\ sinkFault' = [sinkFault EXCEPT ![p] = FALSE]
  /\ reqNo' = [reqNo EXCEPT ![p] = 0]
  /\ UNCHANGED <<analyses, lastAnalyzed, faults, requests>>

\* a step of a request that is being served
Step(p) ==
    \/ startAnalysis_findUnique(p)
    \/ startAnalysis_findFirst(p)
    \/ analyzeRepository_findUnique(p)
    \/ analyzeRepository_create(p)
    \/ analyzeRepository_tree(p)
    \/ analyzeRepository_content(p)
    \/ analyzeRepository_llm(p)
    \/ analyzeRepository_summary(p)
    \/ analyzeRepository_complete(p)
    \/ analyzeRepository_lastAnalyzed(p)
    \/ analyzeRepository_catch(p)
    \/ analyzeRepositoryWithStreaming_findUnique(p)
    \/ analyzeRepositoryWithStreaming_create(p)
    \/ analyzeRepositoryWithStreaming_tree(p)
    \/ analyzeRepositoryWithStreaming_content(p)
    \/ analyzeRepositoryWithStreaming_features(p)
    \/ analyzeRepositoryWithStreaming_structure(p)
    \/ analyzeRepositoryWithStreaming_techStack(p)
    \/ analyzeRepositoryWithStreaming_ast(p)
    \/ analyzeRepositoryWithStreaming_summary(p)
    \/ analyzeRepositoryWithStreaming_complete(p)
    \/ analyzeRepositoryWithStreaming_lastAnalyzed(p)
    \/ analyzeRepositoryWithStreaming_catch(p)
    \/ startAnalysisWithStreaming_resolved(p)
    \/ analyzeRepositoryStream_catch(p)

ANext ==
  \E p \in Procs :
    \/ Request(p)
    \/ Step(p)
    \/ Recycle(p)

\* ======================================================== the search side
Stages == {"detectIntent", "generateCasualResponse", "generateHelpResponse",
           "generateSearchPatterns", "getSearchableRepositories",
           "searchASTData", "searchFileAST", "scoreAndRankResults",
           "calculateMatchScore", "generateSearchResponse"}

Queries == {"", "find auth"}

NoIntent == [intent |-> "none", suggested |-> FALSE]
NoResult == [responseType |-> "none", results |-> <<>>, totalFound |-> 0,
             patterns |-> FALSE]
NoBody == [status |-> 0, success |-> FALSE, error |-> "none", query |-> "none",
           data |-> NoResult]

SInit ==
  /\ spc = "idle"
  /\ endpoint = "none"
  /\ query = "none"
  /\ intentResult = NoIntent
  /\ calls = [c \in Stages |-> 0]
  /\ rawCount = 0
  /\ searchResult = NoResult
  /\ searchErr = "none"
  /\ failedAt = "none"
  /\ sse = <<>>
  /\ sseOpen = FALSE
  /\ sseEnded = FALSE
  /\ body = NoBody

\* an event written to the response: `event: <name>\ndata: {...}`
SseEvent(name, e, q) == [event |-> name, error |-> e, query |-> q]

\* onProgress(name, ...): the callback of the stream endpoints writes the
\* event to the response, the callback of POST search is () => {}
OnProgress(names) ==
  IF endpoint \in {"GET stream", "POST stream"}
    THEN sse' = sse \o [i \in 1..Len(names) |-> SseEvent(names[i], "none", "none")]
    ELSE sse' = sse

Called(cs) == calls' = [c \in Stages |-> IF c \in cs THEN calls[c] + 1 ELSE calls[c]]

\* searchWithStreaming returns r to the controller
Return(r) ==
  /\ searchResult' = r
  /\ spc' = "ctl_ok"
  /\ UNCHANGED <<searchErr, failedAt>>

\* an error leaves searchWithStreaming
SearchThrow(e, stage) ==
  /\ searchErr' = e
  /\ failedAt' = stage
  /\ spc' = "ctl_err"
  /\ UNCHANGED <<searchResult, sse>>

\* SearchRequest whose POST search enters the code search without the
\* intent classification
SearchRequest_skipIntent ==
  /\ spc = "idle"
  /\ UNCHANGED <<avars, pvars>>
  /\ \E ep \in {"GET stream", "POST stream", "POST search"}, q \in Queries :
       /\ endpoint' = ep
       /\ query' = q
       /\ IF ep = "GET stream" /\ q = ""
            THEN /\ body' = [NoBody EXCEPT !.status = 400,
                               !.error = "Query parameter is required"]
                 /\ spc' = "done"
                 /\ UNCHANGED <<sse, sseOpen>>
            ELSE /\ sseOpen' = (ep \in {"GET stream", "POST stream"})
                 /\ sse' = IF ep \in {"GET stream", "POST stream"}
                             THEN <<SseEvent("connected", "none", q),
                                    SseEvent("status", "none", "none")>>
                             ELSE <<>>
                 /\ spc' = IF ep = "POST search" THEN "cs_patterns" ELSE "sw_intent"
                 /\ UNCHANGED body
  /\ UNCHANGED <<intentResult, calls, rawCount, searchResult, searchErr, failedAt,
                 sseEnded>>

\* SearchController.streamSearchGet / streamSearch / search up to the call of
\* searchWithStreaming, and searchWithStreaming up to its first await
SearchRequest ==
  /\ spc = "idle"
  /\ UNCHANGED <<avars, pvars>>
  /\ \E ep \in {"GET stream", "POST stream", "POST search"}, q \in Queries :
       /\ endpoint' = ep
       /\ query' = q
       /\ IF ep = "GET stream" /\ q = ""
            THEN /\ body' = [NoBody EXCEPT !.status = 400,
                               !.error = "Query parameter is required"]
                 /\ spc' = "done"
                 /\ UNCHANGED <<sse, sseOpen>>
            ELSE /\ sseOpen' = (ep \in {"GET stream", "POST stream"})
                 /\ sse' = IF ep \in {"GET stream", "POST stream"}
                             THEN <<SseEvent("connected", "none", q),
                                    SseEvent("status", "none", "none")>>
                             ELSE <<>>
                 /\ spc' = "sw_intent"
                 /\ UNCHANGED body
  /\ UNCHANGED <<intentResult, calls, rawCount, searchResult, searchErr, failedAt,
                 sseEnded>>

\* searchWithStreaming_intent whose dispatch has no help_request branch
searchWithStreaming_intent_noHelpBranch ==
  /\ spc = "sw_intent"
  /\ UNCHANGED <<avars, pvars>>
  /\ Called({"detectIntent"})
  /\ \/ /\ SearchThrow(ErrLLM, "detectIntent")
        /\ UNCHANGED intentResult
     \/ \E i \in {"code_search", "casual_conversation", "help_request"},
           sg \in BOOLEAN :
          /\ intentResult' = [intent |-> i, suggested |-> sg]
          /\ OnProgress(<<"intent", "status">>)
          /\ IF i = "casual_conversation" /\ sg
               THEN Return([NoResult EXCEPT !.responseType = "casual_response"])
               ELSE /\ spc' = CASE i = "casual_conversation" -> "sw_casual"
                                [] OTHER -> "cs_patterns"
                    /\ UNCHANGED <<searchResult, searchErr, failedAt>>
  /\ UNCHANGED <<endpoint, query, rawCount, sseOpen, sseEnded, body>>

\* await this.llmService.detectIntent(query) and the dispatch on the intent
searchWithStreaming_intent ==
  /\ spc = "sw_intent"
  /\ UNCHANGED <<avars, pvars>>
  /\ Called({"detectIntent"})
  /\ \/ /\ SearchThrow(ErrLLM, "detectIntent")
        /\ UNCHANGED intentResult
     \/ \E i \in {"code_search", "casual_conversation", "help_request"},
           sg \in BOOLEAN :
          /\ intentResult' = [intent |-> i, suggested |-> sg]
          /\ OnProgress(<<"intent", "status">>)
          /\ IF i = "casual_conversation" /\ sg
               THEN Return([NoResult EXCEPT !.responseType = "casual_response"])
               ELSE /\ spc' = CASE i = "casual_conversation" -> "sw_casual"
                                [] i = "help_request" -> "sw_help"
                                [] OTHER -> "cs_patterns"
                    /\ UNCHANGED <<searchResult, searchErr, failedAt>>
  /\ UNCHANGED <<endpoint, query, rawCount, sseOpen, sseEnded, body>>

\* await this.llmService.generateCasualResponse(query)
searchWithStreaming_casual ==
  /\ spc = "sw_casual"
  /\ UNCHANGED <<avars, pvars>>
  /\ Called({"generateCasualResponse"})
  /\ \/ SearchThrow(ErrLLM, "generateCasualResponse")
     \/ /\ Return([NoResult EXCEPT !.responseType = "casual_response"])
        /\ UNCHANGED sse
  /\ UNCHANGED <<endpoint, query, intentResult, rawCount, sseOpen, sseEnded, body>>

\* await this.llmService.generateHelpResponse(query)
searchWithStreaming_help ==
  /\ spc = "sw_help"
  /\ UNCHANGED <<avars, pvars>>
  /\ Called({"generateHelpResponse"})
  /\ \/ SearchThrow(ErrLLM, "generateHelpResponse")
     \/ /\ Return([NoResult EXCEPT !.responseType = "help_response"])
        /\ UNCHANGED sse
  /\ UNCHANGED <<endpoint, query, intentResult, rawCount, sseOpen, sseEnded, body>>

\* performCodeSearch_patterns that logs the failure and goes on without patterns
performCodeSearch_patterns_swallow ==
  /\ spc = "cs_patterns"
  /\ UNCHANGED <<avars, pvars>>
  /\ Called({"generateSearchPatterns"})
  /\ \/ /\ searchErr' = ErrLLM
        /\ failedAt' = "generateSearchPatterns"
        /\ spc' = "cs_repositories"
        /\ UNCHANGED <<searchResult, sse>>
     \/ /\ OnProgress(<<"patterns", "status">>)
        /\ spc' = "cs_repositories"
        /\ UNCHANGED <<searchResult, searchErr, failedAt>>
  /\ UNCHANGED <<endpoint, query, intentResult, rawCount, sseOpen, sseEnded, body>>

\* await this.llmService.generateSearchPatterns(query, ...)
performCodeSearch_patterns ==
  /\ spc = "cs_patterns"
  /\ UNCHANGED <<avars, pvars>>
  /\ Called({"generateSearchPatterns"})
  /\ \/ SearchThrow(ErrLLM, "generateSearchPatterns")
     \/ /\ OnProgress(<<"patterns", "status">>)
        /\ spc' = "cs_repositories"
        /\ UNCHANGED <<searchResult, searchErr, failedAt>>
  /\ UNCHANGED <<endpoint, query, intentResult, rawCount, sseOpen, sseEnded, body>>

\* await this.getSearchableRepositories(...), then searchASTData, which has
\* no await of its own: it scans n files and keeps the m files with a match
performCodeSearch_repositories ==
  /\ spc = "cs_repositories"
  /\ UNCHANGED <<avars, pvars>>
  /\ \/ /\ Called({"getSearchableRepositories"})
        /\ SearchThrow(ErrStoreRead, "getSearchableRepositories")
        /\ UNCHANGED rawCount
     \/ \E n \in 0..MaxFiles : \E m \in 0..n :
          /\ calls' = [calls EXCEPT !["getSearchableRepositories"] = @ + 1,
                                    !["searchASTData"] = @ + 1,
                                    !["searchFileAST"] = @ + n]
          /\ rawCount' = m
          /\ OnProgress(<<"repositories", "status">>)
          /\ spc' = "cs_rank"
          /\ UNCHANGED <<searchResult, searchErr, failedAt>>
  /\ UNCHANGED <<endpoint, query, intentResult, sseOpen, sseEnded, body>>

\* the promise of searchASTData is awaited, then scoreAndRankResults runs:
\* one calculateMatchScore call per file, a failed call falls back locally
performCodeSearch_rank ==
  /\ spc = "cs_rank"
  /\ UNCHANGED <<avars, pvars>>
  /\ calls' = [calls EXCEPT !["scoreAndRankResults"] = @ + 1,
                            !["calculateMatchScore"] = @ + rawCount]
  /\ OnProgress(<<"raw_results", "status", "scored_results", "status">>)
  /\ spc' = "cs_summary"
  /\ UNCHANGED <<endpoint, query, intentResult, rawCount, searchResult, searchErr,
                 failedAt, sseOpen, sseEnded, body>>

\* await this.llmService.generateSearchResponse(...) and the return
performCodeSearch_summary ==
  /\ spc = "cs_summary"
  /\ UNCHANGED <<avars, pvars>>
  /\ Called({"generateSearchResponse"})
  /\ \/ SearchThrow(ErrLLM, "generateSearchResponse")
     \/ /\ OnProgress(<<"summary", "status">>)
        /\ Return([responseType |-> "code_search",
                   results |-> [i \in 1..rawCount |-> i],
                   totalFound |-> rawCount, patterns |-> TRUE])
  /\ UNCHANGED <<endpoint, query, intentResult, rawCount, sseOpen, sseEnded, body>>

\* the controller after searchWithStreaming has resolved
SearchController_resolved ==
  /\ spc = "ctl_ok"
  /\ UNCHANGED <<avars, pvars>>
  /\ IF endpoint = "POST search"
       THEN /\ body' = [NoBody EXCEPT !.status = 201, !.success = TRUE,
                                      !.data = searchResult]
            /\ UNCHANGED <<sse, sseEnded>>
       ELSE /\ sse' = sse \o <<SseEvent("results", "none", "none"),
                               SseEvent("complete", "none", "none")>>
            /\ sseEnded' = TRUE
            /\ UNCHANGED body
  /\ spc' = "done"
  /\ UNCHANGED <<endpoint, query, intentResult, calls, rawCount, searchResult,
                 searchErr, failedAt, sseOpen>>

\* SearchController_catch of the stream endpoints without the error event
SearchController_catch_noEvent ==
  /\ spc = "ctl_err"
  /\ UNCHANGED <<avars, pvars>>
  /\ IF endpoint = "POST search"
       THEN /\ body' = [NoBody EXCEPT !.status = 201, !.error = searchErr,
                                      !.query = query]
            /\ UNCHANGED <<sse, sseEnded>>
       ELSE /\ sseEnded' = TRUE
            /\ UNCHANGED <<sse, body>>
  /\ spc' = "done"
  /\ UNCHANGED <<endpoint, query, intentResult, calls, rawCount, searchResult,
                 searchErr, failedAt, sseOpen>>

\* the controller's catch (error) block, and finally { response.end() }
SearchController_catch ==
  /\ spc = "ctl_err"
  /\ UNCHANGED <<avars, pvars>>
  /\ IF endpoint = "POST search"
       THEN /\ body' = [NoBody EXCEPT !.status = 201, !.error = searchErr,
                                      !.query = query]
            /\ UNCHANGED <<sse, sseEnded>>
       ELSE /\ sse' = Append(sse, SseEvent("error", searchErr, query))
            /\ sseEnded' = TRUE
            /\ UNCHANGED body
  /\ spc' = "done"
  /\ UNCHANGED <<endpoint, query, intentResult, calls, rawCount, searchResult,
                 searchErr, failedAt, sseOpen>>

SNext ==
  \/ SearchRequest
  \/ searchWithStreaming_intent
  \/ searchWithStreaming_casual
  \/ searchWithStreaming_help
  \/ performCodeSearch_patterns
  \/ performCodeSearch_repositories
  \/ performCodeSearch_rank
  \/ performCodeSearch_summary
  \/ SearchController_resolved
  \/ SearchController_catch

\* ========================================================= Array helpers
\* Array.prototype.slice(0, n)
Slice(rs, n) == SubSeq(rs, 1, IF Len(rs) < n THEN Len(rs) ELSE n)

\* ==================================================== getImportantFiles
\* A path is the sequence of the pieces of its text, cut so that every
\* literal of the patterns below is a sequence of whole pieces:
\* "src/index.ts" is <<"src", "/", "index", ".", "ts">>.

\* String.prototype.includes / an unanchored literal: part occurs in text
Includes(text, part) ==
  \E i \in 0..(Len(text) - Len(part)) : SubSeq(text, i + 1, i + Len(part)) = part

\* the text ends with part (a literal followed by $)
EndsWith(text, part) ==
  /\ Len(part) <= Len(text)
  /\ SubSeq(text, Len(text) - Len(part) + 1, Len(text)) = part

\* String.prototype.toLowerCase, piece by piece (the i flag of a pattern)
LowerCase(text) ==
  [i \in 1..Len(text) |->
     CASE text[i] = "README" -> "readme"
       [] text[i] = "LICENSE" -> "license"
       [] text[i] = "CHANGELOG" -> "changelog"
       [] text[i] = "CONTRIBUTING" -> "contributing"
       [] text[i] = "Auth" -> "auth"
       [] text[i] = "Service" -> "service"
       [] text[i] = "With" -> "with"
       [] text[i] = "Google" -> "google"
       [] OTHER -> text[i]]

\* a pattern: the alternatives it stands for, ^ and $ anchors, the i flag
Pattern(alts, atStart, atEnd, ignoreCase) ==
  [alts |-> alts, atStart |-> atStart, atEnd |-> atEnd, ignoreCase |-> ignoreCase]

\* /<literal>.(e1|e2|...)$/
WithExt(base, exts) == {<<base, ".", e>> : e \in exts}

ServerExts == {"js", "ts", "py", "rb", "go", "php"}
SchemaExts == {"js", "ts", "py", "rb", "sql"}
SourceExts == {"js", "ts", "jsx", "tsx", "py", "rb", "go", "php", "java", "cs",
               "cpp", "c", "rs", "kt", "swift"}

\* const importantPatterns = [...]
importantPatterns ==
  { Pattern({<<"package", ".", "json">>}, TRUE, TRUE, FALSE),
    Pattern({<<"composer", ".", "json">>}, TRUE, TRUE, FALSE),
    Pattern({<<"requirements", ".", "txt">>}, TRUE, TRUE, FALSE),
    Pattern({<<"Gemfile">>}, TRUE, TRUE, FALSE),
    Pattern({<<"pom", ".", "xml">>}, TRUE, TRUE, FALSE),
    Pattern({<<"build", ".", "gradle">>}, TRUE, TRUE, FALSE),
    Pattern({<<"Cargo", ".", "toml">>}, TRUE, TRUE, FALSE),
    Pattern({<<"go", ".", "mod">>}, TRUE, TRUE, FALSE),
    Pattern({<<"next", ".", "config", ".">>}, FALSE, FALSE, FALSE),
    Pattern({<<"nuxt", ".", "config", ".">>}, FALSE, FALSE, FALSE),
    Pattern({<<"vue", ".", "config", ".">>}, FALSE, FALSE, FALSE),
    Pattern({<<"angular", ".", "json">>}, FALSE, TRUE, FALSE),
    Pattern({<<"tsconfig", ".", "json">>}, FALSE, TRUE, FALSE),
    Pattern({<<"webpack", ".", "config", ".">>}, FALSE, FALSE, FALSE),
    Pattern({<<"vite", ".", "config", ".">>}, FALSE, FALSE, FALSE),
    Pattern(WithExt("app", ServerExts), FALSE, TRUE, FALSE),
    Pattern(WithExt("main", ServerExts), FALSE, TRUE, FALSE),
    Pattern(WithExt("index", ServerExts), FALSE, TRUE, FALSE),
    Pattern(WithExt("server", ServerExts), FALSE, TRUE, FALSE),
    Pattern(WithExt("schema", SchemaExts), FALSE, TRUE, FALSE),
    Pattern({<<"model", "/">>, <<"models", "/">>}, FALSE, FALSE, FALSE),
    Pattern({<<"migration", "/">>, <<"migrations", "/">>}, FALSE, FALSE, FALSE),
    Pattern({<<".", "prisma">>}, FALSE, TRUE, FALSE),
    Pattern({<<"readme", ".">>}, FALSE, FALSE, TRUE),
    Pattern({<<"contributing", ".">>}, FALSE, FALSE, TRUE),
    Pattern({<<"changelog", ".">>}, FALSE, FALSE, TRUE),
    Pattern({<<"license">>}, FALSE, FALSE, TRUE),
    Pattern({<<"Dockerfile">>}, FALSE, TRUE, FALSE),
    Pattern({<<"docker-compose", ".">>}, FALSE, FALSE, FALSE),
    Pattern({<<".", "git", "hub", "/", "workflows", "/">>}, FALSE, FALSE, FALSE),
    Pattern({<<".", "git", "lab-ci", ".">>}, FALSE, FALSE, FALSE),
    Pattern({<<"Jenkinsfile">>}, FALSE, TRUE, FALSE) }

\* const mediumImportancePatterns = [/\.(js|ts|...|swift)$/]
mediumImportancePatterns ==
  { Pattern({<<".", e>> : e \in SourceExts}, FALSE, TRUE, FALSE) }

\* pattern.test(path)
Test(pattern, path) ==
  LET text == IF pattern.ignoreCase THEN LowerCase(path) ELSE path
  IN \E alt \in pattern.alts :
       CASE pattern.atStart /\ pattern.atEnd -> text = alt
         [] pattern.atEnd -> EndsWith(text, alt)
         [] pattern.atStart -> Len(alt) <= Len(text) /\ SubSeq(text, 1, Len(alt)) = alt
         [] OTHER -> Includes(text, alt)

\* patterns.some(pattern => pattern.test(path))
SomeTest(patterns, path) == \E pattern \in patterns : Test(pattern, path)

\* the five path.includes(...) tests of the medium-priority filter
NoiseParts == {<<"node_modules">>, <<".", "git">>, <<"vendor">>, <<"build">>,
               <<"dist">>}

RECURSIVE Filter(_, _)
\* Array.prototype.filter: the elements whose index is in keep, in order
Filter(items, keep) ==
  IF items = <<>> THEN <<>>
  ELSE LET n == Len(items)
           front == Filter(SubSeq(items, 1, n - 1), keep)
       IN IF n \in keep THEN Append(front, items[n]) ELSE front

\* .map(f => f.path)
Paths(items) == [i \in 1..Len(items) |-> items[i].path]

\* const files = tree.filter(item => item.type === 'blob')
files(t) == Filter(t, {i \in 1..Len(t) : t[i].type = "blob"})

\* const highPriority = files.filter(...some(pattern.test(file.path))).map(...)
highPriority(fs) ==
  Paths(Filter(fs, {i \in 1..Len(fs) : SomeTest(importantPatterns, fs[i].path)}))

\* .slice(0, 30)
MediumCap == 30

\* mediumPriority without the .slice(0, 30)
mediumPriority_uncapped(fs, high) ==
  Paths(Filter(fs, {i \in 1..Len(fs) :
                      /\ SomeTest(mediumImportancePatterns, fs[i].path)
                      /\ \A j \in 1..Len(high) : high[j] # fs[i].path
                      /\ \A part \in NoiseParts : ~Includes(fs[i].path, part)}))

\* const mediumPriority = files.filter(...).slice(0, 30).map(f => f.path)
mediumPriority(fs, high) ==
  Paths(Slice(Filter(fs, {i \in 1..Len(fs) :
                            /\ SomeTest(mediumImportancePatterns, fs[i].path)
                            /\ \A j \in 1..Len(high) : high[j] # fs[i].path
                            /\ \A part \in NoiseParts : ~Includes(fs[i].path, part)}),
              MediumCap))

\* getImportantFiles whose medium-priority filter does not look at highPriority
getImportantFiles_noHighCheck(t) ==
  highPriority(files(t)) \o mediumPriority(files(t), <<>>)

\* return [...highPriority, ...mediumPriority]
getImportantFiles(t) ==
  LET high == highPriority(files(t))
  IN high \o mediumPriority(files(t), high)

\* ---- the trees the call is checked with
Blob(path) == [path |-> path, type |-> "blob"]

\* the entries a tree is made of, in the order GitHub lists them
TreePool ==
  << Blob(<<"package", ".", "json">>),
     Blob(<<"src", "/", "index", ".", "ts">>),
     Blob(<<"node_modules", "/", "x", "/", "index", ".", "js">>),
     Blob(<<"README", ".", "md">>),
     Blob(<<"src", "/", "util", ".", "ts">>),
     Blob(<<"dist", "/", "bundle", ".", "js">>),
     Blob(<<"docs", "/", "notes", ".", "txt">>),
     [path |-> <<"src">>, type |-> "tree"] >>

Digits == <<"0", "1", "2", "3", "4", "5", "6", "7", "8", "9">>

\* two decimal digits of i
Numeral(i) == <<Digits[((i \div 10) % 10) + 1], Digits[(i % 10) + 1]>>

\* n source files lib/f01.ts, lib/f02.ts, ...: medium priority
SourceFiles(n) == [i \in 1..n |-> Blob(<<"lib", "/", "f">> \o Numeral(i) \o <<".", "ts">>)]

\* n files pkg/p01/index.ts, ...: high priority
IndexFiles(n) ==
  [i \in 1..n |-> Blob(<<"pkg", "/", "p">> \o Numeral(i) \o <<"/", "index", ".", "ts">>)]

\* a tree has distinct paths: a selection of the pool, then generated files
TreeInputs ==
  { Filter(TreePool, keep) \o SourceFiles(n) \o IndexFiles(m) :
      keep \in SUBSET (1..Len(TreePool)),
      n \in {0, MaxGenerated}, m \in {0, MaxGenerated} }

FInit ==
  /\ fpc = "idle"
  /\ tree = <<>>
  /\ important = <<>>

\* const importantFiles = this.getImportantFiles(tree)
getImportantFiles_call ==
  /\ fpc = "idle"
  /\ UNCHANGED <<avars, svars, rvars, mvars, cvars, xvars, qvars, gvars,
               lvars>>
  /\ \E t \in TreeInputs :
       /\ tree' = t
       /\ important' = getImportantFiles(t)
  /\ fpc' = "done"

SelectNext == getImportantFiles_call

\* ======================================================= the AST matcher
\* Texts are sequences of words, as paths are sequences of pieces.

\* how many entries of list (searchTerms, codePatterns, ...) occur in text:
\* for (const term of list || []) if (text.includes(term.toLowerCase())) ...
RECURSIVE CountFound(_, _)
CountFound(list, text) ==
  IF list = <<>> THEN 0
  ELSE (IF Includes(text, LowerCase(Head(list))) THEN 1 ELSE 0)
       + CountFound(Tail(list), text)

\* Math.min(a, b)
Min(a, b) == IF a < b THEN a ELSE b

\* JSON.stringify(element): the keys and the values of the element
Stringify(el) ==
  <<"{">> \o (IF el.name = <<>> THEN <<>> ELSE <<"name", ":">> \o el.name \o <<",">>)
          \o <<"text", ":">> \o el.text \o <<"}">>

\* BasicRawScore that adds 30 once when any search term is found
BasicRawScore_termOnce(el, sp, q) ==
  LET elementText == LowerCase(Stringify(el))
      queryLower == LowerCase(q)
  IN (IF el.name # <<>> /\ Includes(LowerCase(el.name), queryLower) THEN 50 ELSE 0)
     + 30 * Min(1, CountFound(sp.searchTerms, elementText))
     + 25 * CountFound(sp.codePatterns, elementText)
     + 20 * CountFound(sp.frameworkHints, elementText)

\* the score of calculateBasicMatchScore before Math.min
BasicRawScore(el, sp, q) ==
  LET elementText == LowerCase(Stringify(el))
      queryLower == LowerCase(q)
  IN (IF el.name # <<>> /\ Includes(LowerCase(el.name), queryLower) THEN 50 ELSE 0)
     + 30 * CountFound(sp.searchTerms, elementText)
     + 25 * CountFound(sp.codePatterns, elementText)
     + 20 * CountFound(sp.frameworkHints, elementText)

\* calculateBasicMatchScore that wraps at 100 instead of clamping
calculateBasicMatchScore_wrap(el, sp, q) == BasicRawScore(el, sp, q) % 100

\* calculateBasicMatchScore(element, searchPatterns, originalQuery)
calculateBasicMatchScore(el, sp, q) == Min(BasicRawScore(el, sp, q), 100)

\* the score of calculateImportMatchScore before Math.min
ImportRawScore(el, sp, q) ==
  LET source == LowerCase(el.text)
      queryLower == LowerCase(q)
  IN (IF Includes(source, queryLower) THEN 60 ELSE 0)
     + 40 * CountFound(sp.frameworkHints, source)
     + 35 * CountFound(sp.searchTerms, source)

\* calculateImportMatchScore without the Math.min
calculateImportMatchScore_unclamped(el, sp, q) == ImportRawScore(el, sp, q)

\* calculateImportMatchScore(importStatement, searchPatterns, originalQuery)
calculateImportMatchScore(el, sp, q) == Min(ImportRawScore(el, sp, q), 100)

\* calculateCommentMatchScore(comment, searchPatterns, originalQuery)
calculateCommentMatchScore(el, sp, q) ==
  LET commentText == LowerCase(el.text)
      queryLower == LowerCase(q)
  IN Min((IF Includes(commentText, queryLower) THEN 40 ELSE 0)
         + 20 * CountFound(sp.searchTerms, commentText)
         + (IF el.isJSDoc THEN 10 ELSE 0),
         100)

\* ---- the elements, patterns and queries the scores are checked with
Words == {<<"auth">>, <<"jwt">>, <<"passport">>, <<"next-auth">>, <<"session">>}

ElementInputs ==
  [name : {<<>>, <<"login">>, <<"Auth", "Service">>, <<"login", "With", "Google">>},
   text : {<<>>, <<"passport">>, <<"jwt", "token">>, <<"next-auth", "session">>},
   isJSDoc : BOOLEAN]

PatternInputs ==
  [searchTerms : UNION {[1..n -> Words] : n \in 0..MaxTerms},
   codePatterns : {<<>>, << <<"login">> >>},
   frameworkHints : {<<>>, << <<"passport">> >>}]

QueryInputs == {<<>>, <<"auth">>, <<"login">>, <<"next-auth">>}

NoScores == [basic |-> 0, import |-> 0, comment |-> 0]

MInit ==
  /\ mpc = "idle"
  /\ element = [name |-> <<>>, text |-> <<>>, isJSDoc |-> FALSE]
  /\ searchPatterns = [searchTerms |-> <<>>, codePatterns |-> <<>>,
                       frameworkHints |-> <<>>]
  /\ originalQuery = <<>>
  /\ scores = NoScores
  /\ prevScores = NoScores

\* the three scoring functions applied to one element
Scored(el, sp, q) ==
  [basic |-> calculateBasicMatchScore(el, sp, q),
   import |-> calculateImportMatchScore(el, sp, q),
   comment |-> calculateCommentMatchScore(el, sp, q)]

\* searchFileAST scores an element of a file
searchFileAST_score ==
  /\ mpc = "idle"
  /\ UNCHANGED <<avars, svars, rvars, fvars, cvars, xvars, qvars, gvars,
               lvars>>
  /\ \E el \in ElementInputs, sp \in PatternInputs, q \in QueryInputs :
       /\ element' = el
       /\ searchPatterns' = sp
       /\ originalQuery' = q
       /\ scores' = Scored(el, sp, q)
  /\ mpc' = "scored"
  /\ UNCHANGED prevScores

\* The repository is analysed again after a search term that was not in the
\* element's text has been added to it (to its name or to its other text).
ElementEdited ==
  /\ mpc = "scored"
  /\ UNCHANGED <<avars, svars, rvars, fvars, cvars, xvars, qvars, gvars,
               lvars>>
  /\ \E i \in 1..Len(searchPatterns.searchTerms), field \in {"name", "text"} :
       LET term == searchPatterns.searchTerms[i]
       IN /\ ~Includes(LowerCase(Stringify(element)), LowerCase(term))
          /\ element' = IF field = "name"
                          THEN [element EXCEPT !.name = @ \o term]
                          ELSE [element EXCEPT !.text = @ \o term]
  /\ prevScores' = scores
  /\ mpc' = "edited"
  /\ UNCHANGED <<searchPatterns, originalQuery, scores>>

\* searchFileAST scores the edited element with the same patterns and query
searchFileAST_rescore ==
  /\ mpc = "edited"
  /\ UNCHANGED <<avars, svars, rvars, fvars, cvars, xvars, qvars, gvars,
               lvars>>
  /\ scores' = Scored(element, searchPatterns, originalQuery)
  /\ mpc' = "rescored"
  /\ UNCHANGED <<element, searchPatterns, originalQuery, prevScores>>

MatchNext ==
  \/ searchFileAST_score
  \/ ElementEdited
  \/ searchFileAST_rescore

\* ======================================================== searchFileAST
\* the minimum an element's score must exceed to become a match
\* (if (score > 20) ... for functions and classes, 30 for imports, 25 for
\* variables, 15 for comments)
Threshold ==
  [function |-> 20, class |-> 20, import |-> 30, variable |-> 25, comment |-> 15]

\* the score function searchFileAST applies to the elements of a category
CategoryScore(type, el, sp, q) ==
  CASE type = "import" -> calculateImportMatchScore(el, sp, q)
    [] type = "comment" -> calculateCommentMatchScore(el, sp, q)
    [] OTHER -> calculateBasicMatchScore(el, sp, q)

\* one loop of searchFileAST: the matches pushed for the elements of a
\* category, in the order of the elements
CategoryMatches(type, els, sp, q) ==
  SelectSeq([i \in 1..Len(els) |->
               [type |-> type, score |-> CategoryScore(type, els[i], sp, q),
                data |-> els[i]]],
            LAMBDA m : m.score > Threshold[type])

\* m goes after every match whose score is not smaller
RECURSIVE InsertMatch(_, _)
InsertMatch(m, sorted) ==
  IF sorted = <<>> THEN <<m>>
  ELSE IF Head(sorted).score >= m.score
         THEN <<Head(sorted)>> \o InsertMatch(m, Tail(sorted))
         ELSE <<m>> \o sorted

\* matches.sort((a, b) => b.score - a.score): descending and stable
RECURSIVE SortMatches(_)
SortMatches(ms) ==
  IF ms = <<>> THEN <<>>
  ELSE InsertMatch(ms[Len(ms)], SortMatches(SubSeq(ms, 1, Len(ms) - 1)))

\* the matches in the order the five loops push them
PushedMatches(ast, sp, q) ==
  CategoryMatches("function", ast.functions, sp, q)
    \o CategoryMatches("class", ast.classes, sp, q)
    \o CategoryMatches("import", ast.imports, sp, q)
    \o CategoryMatches("variable", ast.variables, sp, q)
    \o CategoryMatches("comment", ast.comments, sp, q)

\* searchFileAST that returns the matches in the order they were pushed
searchFileAST_unsorted(ast, sp, q) == PushedMatches(ast, sp, q)

\* searchFileAST(fileAst, searchPatterns, originalQuery)
searchFileAST(ast, sp, q) == SortMatches(PushedMatches(ast, sp, q))

\* ---- the files, patterns and queries searchFileAST is checked with
\* elements whose scores lie on and around the thresholds
HintElement == [name |-> <<"strategy">>, text |-> <<"passport">>, isJSDoc |-> FALSE]
PatternElement == [name |-> <<"login">>, text |-> <<"misc">>, isJSDoc |-> FALSE]
TermElement == [name |-> <<"handler">>, text |-> <<"auth">>, isJSDoc |-> FALSE]
PlainElement == [name |-> <<"util">>, text |-> <<"misc">>, isJSDoc |-> FALSE]
JSDocElement == [name |-> <<>>, text |-> <<"misc">>, isJSDoc |-> TRUE]
JSDocTermElement == [name |-> <<>>, text |-> <<"auth">>, isJSDoc |-> TRUE]

DeclarationLists ==
  {<<>>, <<HintElement, PatternElement>>, <<PlainElement, TermElement>>,
   <<PatternElement, TermElement, HintElement>>}

FileInputs ==
  [path : {<<"src", "/", "auth", ".", "ts">>},
   functions : DeclarationLists,
   classes : {<<>>, <<HintElement, TermElement>>},
   imports : {<<>>, <<PlainElement, HintElement, TermElement>>},
   variables : DeclarationLists,
   comments : {<<>>, <<JSDocElement, TermElement, JSDocTermElement>>}]

FilePatternInputs ==
  {[searchTerms |-> <<>>, codePatterns |-> <<>>, frameworkHints |-> <<>>],
   [searchTerms |-> << <<"auth">> >>, codePatterns |-> << <<"login">> >>,
    frameworkHints |-> << <<"passport">> >>]}

FileQueryInputs == {<<"auth">>, <<"queue">>}

XInit ==
  /\ xpc = "idle"
  /\ fileAst = [path |-> <<>>, functions |-> <<>>, classes |-> <<>>,
                imports |-> <<>>, variables |-> <<>>, comments |-> <<>>]
  /\ filePatterns = [searchTerms |-> <<>>, codePatterns |-> <<>>,
                     frameworkHints |-> <<>>]
  /\ fileQuery = <<>>
  /\ fileMatches = <<>>

\* searchASTData calls searchFileAST for one file
searchFileAST_call ==
  /\ xpc = "idle"
  /\ UNCHANGED <<avars, svars, rvars, fvars, mvars, cvars, qvars, gvars,
               lvars>>
  /\ \E ast \in FileInputs, sp \in FilePatternInputs, q \in FileQueryInputs :
       /\ fileAst' = ast
       /\ filePatterns' = sp
       /\ fileQuery' = q
       /\ fileMatches' = searchFileAST(ast, sp, q)
  /\ xpc' = "done"

FileNext == searchFileAST_call

\* ================================================== calculateCodeMetrics
\* const codeExtensions = [...]
codeExtensions == {"js", "ts", "jsx", "tsx", "py", "rb", "go", "java", "php",
                   "cs", "cpp", "c", "rs", "kt", "swift"}

\* isCodeFile(filePath): filePath.split('.').pop() is the piece after the
\* last dot (the whole path when it has no dot)
isCodeFile(path) ==
  /\ path # <<>>
  /\ (Includes(path, <<".">>) \/ Len(path) = 1)
  /\ LowerCase(path)[Len(path)] \in codeExtensions

\* the numbers of calculateCodeMetrics; a content is its number of lines,
\* 0 for a null or empty content
FileLimit == 50
LineLimit == 10000
MediumFileLimit == 20
MediumLineLimit == 5000

\* const codeFiles = fileContents.filter(f => f.content && this.isCodeFile(f.path))
codeFiles(contents) ==
  Filter(contents, {i \in 1..Len(contents) :
                      contents[i].content > 0 /\ isCodeFile(contents[i].path)})

RECURSIVE SumLines(_)
\* codeFiles.reduce((sum, f) => sum + (f.content?.split('\n').length || 0), 0)
SumLines(fs) ==
  IF fs = <<>> THEN 0 ELSE fs[Len(fs)].content + SumLines(SubSeq(fs, 1, Len(fs) - 1))

\* Math.max(a, b)
Max(a, b) == IF a > b THEN a ELSE b

\* calculateCodeMetrics with >= in place of > in the complexity tests
calculateCodeMetrics_inclusive(contents, t) ==
  LET n == Len(codeFiles(contents))
      totalLines == SumLines(codeFiles(contents))
  IN [totalFiles |-> Len(files(t)),
      linesOfCode |-> totalLines,
      complexity |-> IF n >= FileLimit \/ totalLines >= LineLimit THEN "high"
                     ELSE IF n >= MediumFileLimit \/ totalLines >= MediumLineLimit
                            THEN "medium" ELSE "low",
      maintainability |-> Max(10, Min(100, 100 - n))]

\* calculateCodeMetrics(fileContents, tree); maintainability in tenths
calculateCodeMetrics(contents, t) ==
  LET n == Len(codeFiles(contents))
      totalLines == SumLines(codeFiles(contents))
  IN [totalFiles |-> Len(files(t)),
      linesOfCode |-> totalLines,
      complexity |-> IF n > FileLimit \/ totalLines > LineLimit THEN "high"
                     ELSE IF n > MediumFileLimit \/ totalLines > MediumLineLimit
                            THEN "medium" ELSE "low",
      maintainability |-> Max(10, Min(100, 100 - n))]

\* importantFiles.slice(0, 50) in analyzeRepositoryWithStreaming,
\* importantFiles.slice(0, 100) in analyzeRepository
FetchLimit(entry) == IF entry = "analyzeRepositoryWithStreaming" THEN 50 ELSE 100

\* githubService.getMultipleFilesContent(owner, repo, paths): every file has
\* each lines, the last one extra lines more
Contents(paths, each, extra) ==
  [i \in 1..Len(paths) |->
     [path |-> paths[i],
      content |-> each + (IF i = Len(paths) THEN extra ELSE 0)]]

\* lines per file, and extra lines of the last file
LinesEach == {0, 65, 500, 600}
LinesExtra == {0, 100}

\* the repositories: README.md, index files and a source directory
MetricTrees ==
  { <<Blob(<<"README", ".", "md">>)>> \o IndexFiles(n)
      \o <<[path |-> <<"lib">>, type |-> "tree"]>> \o SourceFiles(m) :
      n \in 0..MaxCodeFiles, m \in {0, 1} }

CInit ==
  /\ cpc = "idle"
  /\ entryPoint = "none"
  /\ repoTree = <<>>
  /\ fileContents = <<>>
  /\ codeMetrics = [totalFiles |-> 0, linesOfCode |-> 0, complexity |-> "none",
                    maintainability |-> 0]

\* the pipeline from getImportantFiles(tree) to calculateCodeMetrics
calculateCodeMetrics_call ==
  /\ cpc = "idle"
  /\ UNCHANGED <<avars, svars, rvars, fvars, mvars, xvars, qvars, gvars,
               lvars>>
  /\ \E t \in MetricTrees, each \in LinesEach, extra \in LinesExtra,
        entry \in {"analyzeRepository", "analyzeRepositoryWithStreaming"} :
       LET fetched == Contents(Slice(getImportantFiles(t), FetchLimit(entry)),
                               each, extra)
       IN /\ entryPoint' = entry
          /\ repoTree' = t
          /\ fileContents' = fetched
          /\ codeMetrics' = calculateCodeMetrics(fetched, t)
  /\ cpc' = "done"

MetricsNext == calculateCodeMetrics_call

\* ================================================ scoreAndRankResults
\* const batchSize = 5
batchSize == 5
\* .slice(0, 50)
TopResults == 50

\* The heuristic scores of the matches of one file, as searchFileAST returns
\* them (sorted by descending score, every score above its threshold).
MatchLists == {<<30>>, <<100, 60>>}

\* what calculateMatchScore resolves with (schema: 0 <= score <= 100)
LlmScores == {10, 90}

\* overallScore is a fraction; it is kept as an integer number of
\* 1/ScoreScale units (10 for the weights 0.3 and 0.7, 2 for the division
\* by matches.length).
ScoreScale == 10 * 2

\* the arguments the call is checked with: result k is file k
ShortInputs ==
  UNION {[1..n -> MatchLists] : n \in 0..MaxRaw}

\* a long argument list: the match lists of the files follow a fixed cycle
LongInput(n) ==
  [k \in 1..n |-> CASE k % 3 = 0 -> <<30>>
                    [] k % 3 = 1 -> <<100, 60>>
                    [] OTHER -> <<80, 60, 40>>]

RawInputs == ShortInputs \cup {LongInput(TopResults), LongInput(MaxRanked)}

\* what the calculateMatchScore call for file k can do: resolve with a score
\* or reject.  Every outcome is explored for the first MaxRaw files of a
\* call; for the later files of a long list the outcome follows a fixed
\* cycle of rejections, low scores and high scores.
LlmOutcomes(k) ==
  IF k <= MaxRaw
    THEN [ok : {TRUE}, score : LlmScores] \cup {[ok |-> FALSE, score |-> 0]}
    ELSE {CASE k % 4 = 0 -> [ok |-> FALSE, score |-> 0]
            [] k % 2 = 1 -> [ok |-> TRUE, score |-> 10]
            [] OTHER -> [ok |-> TRUE, score |-> 90]}

RInit ==
  /\ rpc = "idle"
  /\ rawResults = <<>>
  /\ batchStart = 0
  /\ batchPos = 0
  /\ scoredResults = <<>>
  /\ llmOutcome = <<>>
  /\ ranked = <<>>

\* result.matches.reduce((sum, match) => sum + match.score, 0)
RECURSIVE SumScores(_)
SumScores(matches) ==
  IF matches = <<>> THEN 0 ELSE Head(matches) + SumScores(Tail(matches))

\* averageBasicScore = sum / result.matches.length  (in 1/ScoreScale units)
averageBasicScore(matches) == (SumScores(matches) * ScoreScale) \div Len(matches)

\* BlendedScore with the two weights exchanged
BlendedScore_swapped(matches, llm) ==
  (7 * averageBasicScore(matches) + 3 * llm * ScoreScale) \div 10

\* overallScore = (averageBasicScore * 0.3) + (llmScore.score * 0.7)
BlendedScore(matches, llm) ==
  (3 * averageBasicScore(matches) + 7 * llm * ScoreScale) \div 10

\* FallbackScore that scores a file whose model call failed with 0
FallbackScore_zero(matches) == 0

\* the overallScore pushed by the catch block (fallback to basic scoring)
FallbackScore(matches) == averageBasicScore(matches)

\* r goes after every element whose overallScore is not smaller
RECURSIVE InsertByScore(_, _)
InsertByScore(r, sorted) ==
  IF sorted = <<>> THEN <<r>>
  ELSE IF Head(sorted).overallScore >= r.overallScore
         THEN <<Head(sorted)>> \o InsertByScore(r, Tail(sorted))
         ELSE <<r>> \o sorted

\* .sort((a, b) => b.overallScore - a.overallScore): descending and stable
RECURSIVE SortByScore(_)
SortByScore(rs) ==
  IF rs = <<>> THEN <<>>
  ELSE InsertByScore(rs[Len(rs)], SortByScore(SubSeq(rs, 1, Len(rs) - 1)))

\* RankedTop without the sort
RankedTop_unsorted(rs) == Slice(rs, TopResults)

\* the return statement of scoreAndRankResults
RankedTop(rs) == Slice(SortByScore(rs), TopResults)

\* rawResults.slice(i, i + batchSize)
Batch(i) ==
  SubSeq(rawResults, i + 1,
         IF i + batchSize < Len(rawResults) THEN i + batchSize
                                            ELSE Len(rawResults))

\* scoreAndRankResults(rawResults, ...) up to its first await; with no result
\* the loops do not run and the call returns at once
scoreAndRankResults_call ==
  /\ rpc = "idle"
  /\ UNCHANGED <<avars, svars, fvars, mvars, cvars, xvars, qvars, gvars,
               lvars>>
  /\ \E input \in RawInputs :
       /\ rawResults' = input
       /\ IF input = <<>>
            THEN /\ ranked' = RankedTop(<<>>)
                 /\ rpc' = "done"
            ELSE /\ rpc' = "scoring"
                 /\ UNCHANGED ranked
  /\ UNCHANGED <<batchStart, batchPos, scoredResults, llmOutcome>>

\* await calculateMatchScore(...) for the next result of the batch settles:
\* the try block or the catch block pushes the scored result; after the last
\* result of the last batch the array is sorted, cut and returned
scoreAndRankResults_score ==
  /\ rpc = "scoring"
  /\ UNCHANGED <<avars, svars, fvars, mvars, cvars, xvars, qvars, gvars,
               lvars>>
  /\ LET batch == Batch(batchStart)
         k == batchStart + batchPos + 1
         matches == batch[batchPos + 1]
     IN \E llmScore \in LlmOutcomes(k) :
          LET overallScore == IF llmScore.ok
                                THEN BlendedScore(matches, llmScore.score)
                                ELSE FallbackScore(matches)
              pushed == Append(scoredResults,
                               [file |-> k, matches |-> matches,
                                overallScore |-> overallScore,
                                llmExplained |-> llmScore.ok])
              nextStart == IF batchPos + 1 < Len(batch)
                             THEN batchStart ELSE batchStart + batchSize
          IN /\ scoredResults' = pushed
             /\ llmOutcome' = Append(llmOutcome, llmScore)
             /\ batchStart' = nextStart
             /\ batchPos' = IF batchPos + 1 < Len(batch) THEN batchPos + 1 ELSE 0
             /\ IF nextStart < Len(rawResults)
                  THEN UNCHANGED <<rpc, ranked>>
                  ELSE /\ ranked' = RankedTop(pushed)
                       /\ rpc' = "done"
  /\ UNCHANGED rawResults

RankNext ==
  \/ scoreAndRankResults_call
  \/ scoreAndRankResults_score

\* ============================ getSearchableRepositories and searchASTData
\* Analysis rows of one repository are kept in the order of completedAt;
\* astData is [present, files], complexity "none" when it was never set.
NoAst == [present |-> FALSE, files |-> <<>>]
Ast(fs) == [present |-> TRUE, files |-> fs]

MatchingFile ==
  [path |-> <<"src", "/", "auth", ".", "ts">>, functions |-> <<TermElement>>,
   classes |-> <<>>, imports |-> <<HintElement>>, variables |-> <<>>,
   comments |-> <<>>]
SilentFile ==
  [path |-> <<"src", "/", "util", ".", "ts">>, functions |-> <<PlainElement>>,
   classes |-> <<>>, imports |-> <<>>, variables |-> <<PatternElement>>,
   comments |-> <<JSDocElement>>]

\* the rows an Analysis can be: in progress, failed before or after its
\* COMPLETED update, completed with or without an AST artifact set
AnalysisRows ==
  {[status |-> "IN_PROGRESS", complexity |-> "none", astData |-> NoAst],
   [status |-> "FAILED", complexity |-> "none", astData |-> NoAst],
   [status |-> "FAILED", complexity |-> "high",
    astData |-> Ast(<<MatchingFile>>)]}
  \cup [status : {"COMPLETED"}, complexity : {"low", "high"},
        astData : {NoAst, Ast(<<>>), Ast(<<MatchingFile, SilentFile>>)}]

\* the rows get their ids in the order of the table
WithIds(rows, base) ==
  [i \in 1..Len(rows) |->
     [id |-> base + i, status |-> rows[i].status,
      complexity |-> rows[i].complexity, astData |-> rows[i].astData]]

StoreInputs ==
  {[r1 |-> [language |-> "TypeScript", analyses |-> WithIds(rows, 0)],
    r2 |-> [language |-> "Python", analyses |-> WithIds(other, 10)]] :
     rows \in UNION {[1..n -> AnalysisRows] : n \in 0..MaxAnalyses},
     other \in {<<>>, <<[status |-> "COMPLETED", complexity |-> "high",
                        astData |-> Ast(<<MatchingFile>>)]>>}}

QueryFilterInputs ==
  [repositoryIds : {<<>>, <<"r1">>, <<"r2">>},
   languages : {<<>>, <<"TypeScript">>},
   complexity : {"none", "low", "high"}]

\* the patterns and the query of the search
ScanPatterns ==
  [searchTerms |-> << <<"auth">> >>, codePatterns |-> << <<"login">> >>,
   frameworkHints |-> << <<"passport">> >>]
ScanQuery == <<"auth">>

Elements(seq) == {seq[i] : i \in 1..Len(seq)}

\* where: { analyses: { some: { status: 'COMPLETED', astData: { not: null },
\* complexity? } }, id?: { in: repositoryIds }, language?: { in: languages } }
WhereClause(repo, id, q) ==
  /\ \E i \in 1..Len(repo.analyses) :
       /\ repo.analyses[i].status = "COMPLETED"
       /\ repo.analyses[i].astData.present
       /\ q.complexity # "none" => repo.analyses[i].complexity = q.complexity
  /\ q.repositoryIds # <<>> => id \in Elements(q.repositoryIds)
  /\ q.languages # <<>> => repo.language \in Elements(q.languages)

\* include: { analyses: { where: { status: 'COMPLETED' },
\* orderBy: { completedAt: 'desc' }, take: 1, select: { id, astData, ... } } }
IncludedAnalyses(repo) ==
  LET completed == {i \in 1..Len(repo.analyses) :
                      repo.analyses[i].status = "COMPLETED"}
  IN IF completed = {} THEN <<>>
     ELSE LET last == CHOOSE i \in completed : \A j \in completed : j <= i
          IN <<[id |-> repo.analyses[last].id,
                astData |-> repo.analyses[last].astData]>>

\* prisma.repository.findMany({ where: whereClause, include: ... })
getSearchableRepositories(st, q) ==
  LET row(id) == [id |-> id, analyses |-> IncludedAnalyses(st[id])]
  IN (IF WhereClause(st["r1"], "r1", q) THEN <<row("r1")>> ELSE <<>>)
     \o (IF WhereClause(st["r2"], "r2", q) THEN <<row("r2")>> ELSE <<>>)

\* the files of the repositories that reach searchFileAST: a repository
\* without analyses[0] or without astData is skipped
RECURSIVE FilesToScan(_)
FilesToScan(repos) ==
  IF repos = <<>> THEN <<>>
  ELSE LET repo == Head(repos)
           mine ==
             IF repo.analyses = <<>> \/ ~repo.analyses[1].astData.present
               THEN <<>>
               ELSE [i \in 1..Len(repo.analyses[1].astData.files) |->
                       [repository |-> repo.id, analysis |-> repo.analyses[1].id,
                        astData |-> repo.analyses[1].astData.files[i]]]
       IN mine \o FilesToScan(Tail(repos))

\* the result pushed for a scanned file
FileResult(f, sp, q) ==
  [repository |-> f.repository, analysis |-> f.analysis, path |-> f.astData.path,
   matches |-> searchFileAST(f.astData, sp, q)]

\* searchASTData that pushes a result for every scanned file
searchASTData_keepEmpty(repos, sp, q) ==
  LET fs == FilesToScan(repos)
  IN [i \in 1..Len(fs) |-> FileResult(fs[i], sp, q)]

\* searchASTData(repositories, searchPatterns, originalQuery):
\* if (fileMatches.length > 0) results.push(...)
searchASTData(repos, sp, q) ==
  LET fs == FilesToScan(repos)
  IN SelectSeq([i \in 1..Len(fs) |-> FileResult(fs[i], sp, q)],
               LAMBDA r : Len(r.matches) > 0)

\* the scores of the matches of a result
MatchScores(r) == [i \in 1..Len(r.matches) |-> r.matches[i].score]

\* what calculateMatchScore can do for a result: reject, or resolve with a
\* score of the schema z.number().min(0).max(100)
ScanOutcomes ==
  [ok : {TRUE}, score : {0, 100}] \cup {[ok |-> FALSE, score |-> 0]}

QInit ==
  /\ qpc = "idle"
  /\ repoStore = [r1 |-> [language |-> "TypeScript", analyses |-> <<>>],
                  r2 |-> [language |-> "Python", analyses |-> <<>>]]
  /\ searchQuery = [repositoryIds |-> <<>>, languages |-> <<>>,
                    complexity |-> "none"]
  /\ repositories = <<>>
  /\ scannedFiles = <<>>
  /\ rawFound = <<>>
  /\ foundScores = <<>>

\* await this.getSearchableRepositories(repositoryIds, filters)
getSearchableRepositories_findMany ==
  /\ qpc = "idle"
  /\ UNCHANGED <<avars, svars, rvars, fvars, mvars, cvars, xvars, gvars,
               lvars>>
  /\ \E st \in StoreInputs, q \in QueryFilterInputs :
       /\ repoStore' = st
       /\ searchQuery' = q
       /\ repositories' = getSearchableRepositories(st, q)
  /\ qpc' = "queried"
  /\ UNCHANGED <<scannedFiles, rawFound, foundScores>>

\* await this.searchASTData(repositories, searchPatterns, query)
searchASTData_scan ==
  /\ qpc = "queried"
  /\ UNCHANGED <<avars, svars, rvars, fvars, mvars, cvars, xvars, gvars,
               lvars>>
  /\ scannedFiles' = [i \in 1..Len(FilesToScan(repositories)) |->
                        [repository |-> FilesToScan(repositories)[i].repository,
                         analysis |-> FilesToScan(repositories)[i].analysis,
                         path |-> FilesToScan(repositories)[i].astData.path]]
  /\ rawFound' = searchASTData(repositories, ScanPatterns, ScanQuery)
  /\ qpc' = "scanned"
  /\ UNCHANGED <<repoStore, searchQuery, repositories, foundScores>>

\* await this.scoreAndRankResults(rawResults, query, searchPatterns): the
\* overallScore of every result, by the try block or by the catch block
scoreAndRankResults_all ==
  /\ qpc = "scanned"
  /\ UNCHANGED <<avars, svars, rvars, fvars, mvars, cvars, xvars, gvars,
               lvars>>
  /\ \E outcomes \in [1..Len(rawFound) -> ScanOutcomes] :
       foundScores' =
         [i \in 1..Len(rawFound) |->
            IF outcomes[i].ok
              THEN BlendedScore(MatchScores(rawFound[i]), outcomes[i].score)
              ELSE FallbackScore(MatchScores(rawFound[i]))]
  /\ qpc' = "done"
  /\ UNCHANGED <<repoStore, searchQuery, repositories, scannedFiles, rawFound>>

ScanNext ==
  \/ getSearchableRepositories_findMany
  \/ searchASTData_scan
  \/ scoreAndRankResults_all

\* ========================================================== generateAST
\* detectLanguage(filePath): the language of the extension, or 'unknown'
detectLanguage(path) ==
  LET ext == LowerCase(path)[Len(path)]
  IN IF ~Includes(path, <<".">>) THEN "unknown"
     ELSE CASE ext \in {"js", "jsx"} -> "javascript"
            [] ext \in {"ts", "tsx"} -> "typescript"
            [] ext = "py" -> "python"
            [] ext = "rb" -> "ruby"
            [] ext = "go" -> "go"
            [] ext = "java" -> "java"
            [] ext = "php" -> "php"
            [] ext = "cs" -> "csharp"
            [] ext = "cpp" -> "cpp"
            [] ext = "c" -> "c"
            [] ext = "rs" -> "rust"
            [] ext = "kt" -> "kotlin"
            [] ext = "swift" -> "swift"
            [] ext = "json" -> "json"
            [] OTHER -> "unknown"

\* const supportedLanguages = [...] of the Tree-sitter generateAST, and
\* ['javascript', 'typescript', 'json'] of the Babel generateAST
supportedLanguages(impl) ==
  IF impl = "treeSitter"
    THEN {"javascript", "typescript", "python", "go", "rust", "java", "cpp",
          "csharp", "ruby", "php", "swift", "kotlin", "json"}
    ELSE {"javascript", "typescript", "json"}

\* createBasicASTFallback(filePath, content, language)
createBasicASTFallback(path, language) ==
  [path |-> path, language |-> language, parseSuccess |-> "false",
   imports |-> <<>>, functions |-> <<>>, classes |-> <<>>, variables |-> <<>>]

\* createBasicAST(filePath, content, language): no parseSuccess field, the
\* imports and functions found by the regular expressions
createBasicAST(path, language, found) ==
  [path |-> path, language |-> language, parseSuccess |-> "absent",
   imports |-> found, functions |-> found, classes |-> <<>>, variables |-> <<>>]

\* the artifact of a file the parser went through: the Tree-sitter
\* extraction methods return [] and set parseSuccess = !rootNode.hasError(),
\* the Babel ones return what they found and set no parseSuccess
ParsedArtifact(impl, path, language, hasError, found) ==
  IF impl = "treeSitter"
    THEN [path |-> path, language |-> language,
          parseSuccess |-> IF hasError THEN "false" ELSE "true",
          imports |-> <<>>, functions |-> <<>>, classes |-> <<>>,
          variables |-> <<>>]
    ELSE [path |-> path, language |-> language, parseSuccess |-> "absent",
          imports |-> found, functions |-> found, classes |-> found,
          variables |-> found]

\* what the parser can do for one file: go through it, be unavailable
\* (no parser for the language, @babel/parser not installed), or throw
ParseOutcomes ==
  [kind : {"parsed"}, hasError : BOOLEAN, found : {<<>>, <<"main">>}]
  \cup [kind : {"unavailable", "threw"}, hasError : {FALSE},
        found : {<<>>, <<"main">>}]

\* what the parser of impl can do for a file of a language: JSON.parse of
\* the Babel generateAST is always available
CanHappen(impl, language, o) ==
  (impl = "babel" /\ language = "json") => o.kind # "unavailable"

\* parseFileASTWithTreeSitter: the artifact it resolves with; its catch
\* block and its missing-parser branch return the fallback artifact
parseFileASTWithTreeSitter(path, language, o) ==
  IF o.kind = "parsed"
    THEN <<ParsedArtifact("treeSitter", path, language, o.hasError, o.found)>>
    ELSE <<createBasicASTFallback(path, language)>>

\* parseFileAST of the Babel generateAST: parseJSONAST and
\* parseJSTypeScriptAST rethrow a parse error (no artifact), a missing
\* @babel/parser gives createBasicAST
parseFileAST(path, language, o) ==
  CASE o.kind = "parsed" ->
         <<ParsedArtifact("babel", path, language, o.hasError, o.found)>>
    [] o.kind = "unavailable" ->
         <<createBasicAST(path, language, o.found)>>
    [] OTHER -> <<>>

\* the files generateAST is checked with
ParseFilePool ==
  {[path |-> <<"src", "/", "app", ".", "ts">>, content |-> TRUE],
   [path |-> <<"package", ".", "json">>, content |-> TRUE],
   [path |-> <<"tool", ".", "py">>, content |-> TRUE],
   [path |-> <<"README", ".", "md">>, content |-> TRUE],
   [path |-> <<"src", "/", "gone", ".", "ts">>, content |-> FALSE]}

ParseInputs ==
  {fs \in UNION {[1..n -> ParseFilePool] : n \in 0..MaxParseFiles} :
     \A i, j \in 1..Len(fs) : fs[i] = fs[j] => i = j}

GInit ==
  /\ gpc = "idle"
  /\ astImpl = "none"
  /\ parseFiles = <<>>
  /\ parseIndex = 0
  /\ parseOutcome = <<>>
  /\ astFiles = <<>>

\* the files the loop skips: if (!file.content) continue;
\* if (!supportedLanguages.includes(language)) continue
Skipped(impl, f) ==
  ~f.content \/ detectLanguage(f.path) \notin supportedLanguages(impl)

\* the loop runs without an await over the files it skips
RECURSIVE NextParsed(_, _, _)
NextParsed(impl, fs, i) ==
  IF i < Len(fs) /\ Skipped(impl, fs[i + 1]) THEN NextParsed(impl, fs, i + 1)
  ELSE i

NoOutcome == [kind |-> "skipped", hasError |-> FALSE, found |-> <<>>]

\* generateAST(fileContents) up to its first awaited parse
generateAST_call ==
  /\ gpc = "idle"
  /\ UNCHANGED <<avars, svars, rvars, fvars, mvars, cvars, xvars, qvars,
               lvars>>
  /\ \E impl \in {"treeSitter", "babel"}, fs \in ParseInputs :
       LET i == NextParsed(impl, fs, 0)
       IN /\ astImpl' = impl
          /\ parseFiles' = fs
          /\ parseIndex' = i
          /\ parseOutcome' = [k \in 1..i |-> NoOutcome]
          /\ gpc' = IF i < Len(fs) THEN "parsing" ELSE "done"
  /\ UNCHANGED astFiles

\* the awaited parse of one file settles: try { ... astData.files.push }
\* catch { logger.warn }, and the loop goes on to the next awaited parse
generateAST_file ==
  /\ gpc = "parsing"
  /\ UNCHANGED <<avars, svars, rvars, fvars, mvars, cvars, xvars, qvars,
               lvars>>
  /\ \E o \in ParseOutcomes :
       LET f == parseFiles[parseIndex + 1]
           language == detectLanguage(f.path)
           artifact == IF astImpl = "treeSitter"
                         THEN parseFileASTWithTreeSitter(f.path, language, o)
                         ELSE parseFileAST(f.path, language, o)
           i == NextParsed(astImpl, parseFiles, parseIndex + 1)
       IN /\ CanHappen(astImpl, language, o)
          /\ astFiles' = astFiles \o artifact
          /\ parseOutcome' = Append(parseOutcome, o)
                               \o [k \in 1..(i - parseIndex - 1) |-> NoOutcome]
          /\ parseIndex' = i
          /\ gpc' = IF i < Len(parseFiles) THEN "parsing" ELSE "done"
  /\ UNCHANGED <<astImpl, parseFiles>>

GenNext ==
  \/ generateAST_call
  \/ generateAST_file

\* ---------------------------------------------------- LLMService.generate
\* const { ..., maxRetries = 3 } = options
DefaultMaxRetries == 3

\* what generate passes to retryOperation: maxAttempts: 3
GenerateMaxAttempts == 3

\* delayMs: 1000 of generate's call of retryOperation, and the factor of
\* Math.pow(2, attempt) * 1000
DelayMs == 1000

\* the maxRetries option of a call: absent, or a number
MaxRetriesInputs ==
  {[given |-> FALSE, value |-> 0]}
  \cup [given : {TRUE}, value : 0..MaxRetryOption]

NoLlmResult == [kind |-> "none", value |-> "", message |-> "none"]

Returned(v) == [kind |-> "value", value |-> v, message |-> "none"]

Thrown(m) == [kind |-> "error", value |-> "", message |-> m]

\* what one attempt can do: result.text / result.object, an error of the
\* provider call, or (generate only, whose try block calls getModel) the
\* error of a missing API key
AttemptOutcomes(impl) ==
  {Returned(""), Returned("text"), Thrown("provider")}
  \cup (IF impl = "generate" THEN {Thrown("API key not configured")} ELSE {})

\* the first value of the loop variable: let attempt = 0 of generate,
\* let attempt = 1 of retryOperation
FirstAttempt(impl) == IF impl = "generate" THEN 0 ELSE 1

\* the loop condition: while (attempt < maxRetries) of generate,
\* attempt <= options.maxAttempts of retryOperation
LoopContinues(impl, n, max) ==
  IF impl = "generate" THEN n < max ELSE n <= max

\* a catch block that never gives up and always sets the timeout
Exhausted_never(impl, n, max) == FALSE

\* the catch block gives up: if (attempt >= maxRetries) throw of generate
\* (after attempt++), if (attempt === options.maxAttempts) break of
\* retryOperation
Exhausted(impl, n, max) ==
  IF impl = "generate" THEN n >= max ELSE n = max

\* the timeout of the catch block: Math.pow(2, attempt) * 1000 of generate,
\* options.delayMs of retryOperation with strategy 'fixed'
BackoffDelay(impl, n) ==
  IF impl = "generate" THEN (2 ^ n) * DelayMs ELSE DelayMs

\* the error of the catch block: `LLM generation failed after ...` of
\* generate, lastError of retryOperation
LastError(impl, e) ==
  IF impl = "generate"
    THEN Thrown("LLM generation failed after attempts")
    ELSE e

\* the throw after the loop: 'LLM generation failed: Maximum retries
\* exceeded' of generate; if (lastError) throw lastError, else 'Failed to
\* complete operation' of retryOperation
AfterLoop(impl, settled) ==
  IF impl = "generate"
    THEN Thrown("LLM generation failed: Maximum retries exceeded")
    ELSE IF settled # <<>> THEN settled[Len(settled)]
         ELSE Thrown("Failed to complete operation")

LInit ==
  /\ lpc = "idle"
  /\ llmImpl = "none"
  /\ maxRetries = 0
  /\ attempt = 0
  /\ attempts = <<>>
  /\ delays = <<>>
  /\ llmResult = NoLlmResult

\* generate(options) of the retry loop of its own, up to its first attempt
generate_call ==
  /\ lpc = "idle"
  /\ UNCHANGED <<avars, svars, rvars, fvars, mvars, cvars, xvars, qvars, gvars>>
  /\ \E option \in MaxRetriesInputs :
       LET max == IF option.given THEN option.value ELSE DefaultMaxRetries
           n == FirstAttempt("generate")
       IN /\ llmImpl' = "generate"
          /\ maxRetries' = max
          /\ attempt' = n
          /\ IF LoopContinues("generate", n, max)
               THEN lpc' = "calling" /\ llmResult' = NoLlmResult
               ELSE lpc' = "threw" /\ llmResult' = AfterLoop("generate", <<>>)
  /\ UNCHANGED <<attempts, delays>>

\* generate(request) of llm.service.ts: getModelInstance, then
\* retryOperation(operation, { delayMs: 1000, maxAttempts: 3, strategy:
\* 'fixed' }) up to its first attempt
retryOperation_call ==
  /\ lpc = "idle"
  /\ UNCHANGED <<avars, svars, rvars, fvars, mvars, cvars, xvars, qvars, gvars>>
  /\ \E validModel \in BOOLEAN :
       LET max == GenerateMaxAttempts
           n == FirstAttempt("retryOperation")
       IN /\ llmImpl' = "retryOperation"
          /\ maxRetries' = max
          /\ attempt' = n
          /\ IF ~validModel
               THEN lpc' = "threw" /\ llmResult' = Thrown("Invalid model")
               ELSE IF LoopContinues("retryOperation", n, max)
                 THEN lpc' = "calling" /\ llmResult' = NoLlmResult
                 ELSE /\ lpc' = "threw"
                      /\ llmResult' = AfterLoop("retryOperation", <<>>)
  /\ UNCHANGED <<attempts, delays>>

\* one attempt settles: return result, or the catch block
generate_attempt ==
  /\ lpc = "calling"
  /\ UNCHANGED <<avars, svars, rvars, fvars, mvars, cvars, xvars, qvars, gvars>>
  /\ \E o \in AttemptOutcomes(llmImpl) :
       LET n == IF llmImpl = "generate" THEN attempt + 1 ELSE attempt
       IN /\ attempts' = Append(attempts, o)
          /\ attempt' = n
          /\ IF o.kind = "value"
               THEN lpc' = "returned" /\ llmResult' = o /\ UNCHANGED delays
               ELSE IF Exhausted(llmImpl, n, maxRetries)
                 THEN /\ lpc' = "threw"
                      /\ llmResult' = LastError(llmImpl, o)
                      /\ UNCHANGED delays
                 ELSE /\ lpc' = "waiting"
                      /\ delays' = Append(delays, BackoffDelay(llmImpl, n))
                      /\ UNCHANGED llmResult
  /\ UNCHANGED <<llmImpl, maxRetries>>

\* the timeout fires and the loop goes round
generate_timeout ==
  /\ lpc = "waiting"
  /\ UNCHANGED <<avars, svars, rvars, fvars, mvars, cvars, xvars, qvars, gvars>>
  /\ LET n == IF llmImpl = "generate" THEN attempt ELSE attempt + 1
     IN /\ attempt' = n
        /\ IF LoopContinues(llmImpl, n, maxRetries)
             THEN lpc' = "calling" /\ UNCHANGED llmResult
             ELSE lpc' = "threw" /\ llmResult' = AfterLoop(llmImpl, attempts)
  /\ UNCHANGED <<llmImpl, maxRetries, attempts, delays>>

RetryNext ==
  \/ generate_call
  \/ retryOperation_call
  \/ generate_attempt
  \/ generate_timeout

\* ======================================================== specifications
Init == AInit /\ SInit /\ RInit /\ FInit /\ MInit /\ CInit /\ XInit /\ QInit /\ GInit
          /\ LInit

\* the analysis requests
Next == ANext

Spec == Init /\ [][Next]_vars

\* one search request
SearchNext == SNext

SearchSpec == Init /\ [][SearchNext]_vars

\* one call of scoreAndRankResults
RankSpec == Init /\ [][RankNext]_vars

\* one call of getImportantFiles
SelectSpec == Init /\ [][SelectNext]_vars

\* the lookup, scan and ranking of one code search
ScanSpec == Init /\ [][ScanNext]_vars

\* the AST artifact set of one pipeline run
GenSpec == Init /\ [][GenNext]_vars

\* one call of LLMService.generate: the provider call of every attempt
\* settles and every timeout fires
RetrySpec == Init /\ [][RetryNext]_vars /\ WF_vars(RetryNext)

\* the matches of one file
FileSpec == Init /\ [][FileNext]_vars

\* the code metrics of one pipeline run
MetricsSpec == Init /\ [][MetricsNext]_vars

\* the match scores of one element, before and after it gains a search term
MatchSpec == Init /\ [][MatchNext]_vars

\* ================================================================ claims
Terminal == {"COMPLETED", "FAILED"}

\* C1: in every reachable state at most one Analysis record of a repository
\* has status IN_PROGRESS, under any interleaving of start-analysis requests.
C1_SingleFlight ==
  \A r \in StoredRepos :
    Cardinality({i \in 1..Len(analyses) :
                   analyses[i].repositoryId = r
                   /\ analyses[i].status = "IN_PROGRESS"}) <= 1

\* C2: a record that is COMPLETED or FAILED is never changed again by any
\* step, and no record is written more than twice.
C2_TerminalIsFinal ==
  [][\A i \in 1..Len(analyses) :
       /\ analyses[i].status \in Terminal => analyses'[i] = analyses[i]
       /\ analyses'[i].writes <= 2]_vars

\* C3: a run that ends by propagating an error has set its own
\* record to FAILED with the message of the error; none leaves it IN_PROGRESS.
C3_FailedBeforePropagation ==
  \A p \in Procs :
    (outcome[p] = "rejected" /\ myId[p] # 0) =>
      /\ analyses[myId[p]].status = "FAILED"
      /\ analyses[myId[p]].errorMessage = err[p]

\* C4: a run in which a summarizer has failed and nothing else has gone
\* wrong ends with its record COMPLETED, holding the default of each failed
\* summarizer and the result of each summarizer that succeeded.
C4_SummarizerIsolation ==
  \A p \in Procs :
    ( /\ outcome[p] # "none"
      /\ myId[p] # 0
      /\ ~fatalFault[p]
      /\ ~sinkFault[p]
      /\ \E t \in DOMAIN sumRes[p] : sumRes[p][t] = "failed" ) =>
      LET a == analyses[myId[p]] IN
        /\ a.status = "COMPLETED"
        /\ a.features = IF sumRes[p].features = "ok"
                          THEN ExtractedFeatures ELSE DefaultFeatures
        /\ a.architecture = IF sumRes[p].structure = "ok"
                              THEN ExtractedArchitecture ELSE DefaultArchitecture
        /\ a.languages = IF sumRes[p].techStack = "ok"
                           THEN ExtractedLanguages ELSE DefaultLanguages

\* C5: when startAnalysis finds an IN_PROGRESS record of the repository, its
\* step creates and changes no record, starts no pipeline run and answers
\* 'Analysis already in progress' with one of the IN_PROGRESS records.
C5_AlreadyInProgressIsNoOp ==
  [][\A p \in Procs :
       LET inProgress == {i \in 1..Len(analyses) :
                            analyses[i].repositoryId = repoOf[p]
                            /\ analyses[i].status = "IN_PROGRESS"}
       IN /\ (pc[p] = "sa_findFirst" /\ pc'[p] # "sa_findFirst"
              /\ inProgress # {}) =>
               /\ analyses' = analyses
               /\ lastAnalyzed' = lastAnalyzed
               /\ pc'[p] = "done"
               /\ response'[p].message = "Analysis already in progress"
               /\ response'[p].analysis \in inProgress
          /\ response[p].message = "Analysis already in progress" =>
               /\ myId[p] = 0
               /\ outcome[p] = "none"
               /\ pc[p] = "done"
               /\ \A i \in 1..Len(analyses) : analyses[i].createdBy # reqNo[p]]_vars

\* a startAnalysis request has been answered 'Analysis already in progress'
\* while the record it returned is IN_PROGRESS
C5_Witness ==
  \E p \in Procs :
    /\ response[p].message = "Analysis already in progress"
    /\ response[p].analysis \in 1..Len(analyses)
    /\ analyses[response[p].analysis].status = "IN_PROGRESS"

\* the positions of the terminal events in a stream of events
TerminalAt(evs) == {i \in 1..Len(evs) : evs[i].event \in {"complete", "error"}}

C7_OneTerminalEvent ==
  LET term == TerminalAt(sse)
  IN /\ ~sseOpen => (sse = <<>> /\ ~sseEnded)
     /\ sseOpen =>
          /\ Cardinality(term) <= 1
          /\ \A i \in term : i = Len(sse)
          /\ sseEnded <=> term # {}
          /\ spc = "done" => sseEnded
          /\ \A i \in term :
               IF sse[i].event = "complete"
                 THEN /\ i >= 2
                      /\ sse[i - 1].event = "results"
                      /\ searchErr = "none"
                 ELSE /\ searchErr # "none"
                      /\ sse[i].error = searchErr
                      /\ \A j \in 1..Len(sse) : sse[j].event # "results"

\* a search/stream request ended with 'results' and 'complete'
C7_Witness ==
  /\ sseOpen
  /\ spc = "done"
  /\ Len(sse) >= 2
  /\ sse[Len(sse)].event = "complete"
  /\ sse[Len(sse) - 1].event = "results"

\* C8: a streamed run in which a progress callback has thrown and no
\* collaborator of the pipeline has failed fatally resolves with its record
\* COMPLETED, holding what the summarizers returned.
C8_SinkIsFireAndForget ==
  \A p \in Procs :
    ( /\ kind[p] = "stream"
      /\ outcome[p] # "none"
      /\ myId[p] # 0
      /\ sinkFault[p]
      /\ ~fatalFault[p] ) =>
      /\ outcome[p] = "resolved"
      /\ analyses[myId[p]].status = "COMPLETED"
      /\ analyses[myId[p]].errorMessage = "none"

\* the stages behind the intent gate
GatedStages == {"generateSearchPatterns", "getSearchableRepositories",
                "searchASTData", "searchFileAST", "scoreAndRankResults",
                "calculateMatchScore"}

\* C9: once the query is classified casual_conversation or help_request, no
\* pattern generation, repository lookup, matcher or ranker call is made, the
\* code-search path is not entered, and what searchWithStreaming returns has
\* an empty result list and totalFound = 0.
C9_IntentGate ==
  intentResult.intent \in {"casual_conversation", "help_request"} =>
    /\ \A c \in GatedStages : calls[c] = 0
    /\ spc \in {"sw_casual", "sw_help", "ctl_ok", "ctl_err", "done"}
    /\ searchResult.results = <<>>
    /\ searchResult.totalFound = 0
    /\ (spc \in {"ctl_ok", "done"} /\ searchErr = "none") =>
         searchResult.responseType =
           IF intentResult.intent = "help_request" THEN "help_response"
                                                   ELSE "casual_response"

\* a help_request has been answered by generateHelpResponse
C9_Witness ==
  /\ intentResult.intent = "help_request"
  /\ spc = "done"
  /\ calls["generateHelpResponse"] = 1
  /\ searchResult.responseType = "help_response"

\* C10: once generateSearchPatterns has failed, no repository lookup, matcher,
\* ranker or response generation call is made and no result is returned; the
\* request ends with {success: false, error, query} on POST search and with
\* the 'error' event carrying the message and the query, without 'results',
\* on search/stream.
C10_PatternFailureSurfaces ==
  failedAt = "generateSearchPatterns" =>
    /\ \A c \in (GatedStages \cup {"generateSearchResponse"})
                  \ {"generateSearchPatterns"} : calls[c] = 0
    /\ searchResult = NoResult
    /\ searchErr = ErrLLM
    /\ spc \in {"ctl_err", "done"}
    /\ spc = "done" =>
         IF endpoint = "POST search"
           THEN /\ body.success = FALSE
                /\ body.error = ErrLLM
                /\ body.query = query
                /\ body.data = NoResult
           ELSE /\ sse # <<>>
                /\ sse[Len(sse)] = SseEvent("error", ErrLLM, query)
                /\ \A j \in 1..Len(sse) : sse[j].event # "results"

\* POST search has answered a failed pattern generation
C10_Witness ==
  /\ failedAt = "generateSearchPatterns"
  /\ spc = "done"
  /\ endpoint = "POST search"
  /\ body.error = ErrLLM
  /\ calls["generateSearchPatterns"] = 1

\* C11: a file whose model call failed is pushed with the unweighted average
\* of its heuristic match scores as overallScore and is part of the returned
\* ranking; every file, in its own batch and in later ones, is processed once
\* and in order, keeps its matches, and gets the blended score of its own
\* matches and its own model score when its own call succeeded.
C11_LocalScoringFallback ==
  /\ Len(llmOutcome) = Len(scoredResults)
  /\ \A k \in 1..Len(scoredResults) :
       LET r == scoredResults[k]
           n == Len(rawResults[k])
           sum == SumScores(rawResults[k])
       IN /\ r.file = k
          /\ r.matches = rawResults[k]
          /\ IF llmOutcome[k].ok
               THEN 10 * n * r.overallScore =
                      ScoreScale * (3 * sum + 7 * n * llmOutcome[k].score)
               ELSE n * r.overallScore = ScoreScale * sum
  /\ rpc = "done" =>
       /\ Len(scoredResults) = Len(rawResults)
       /\ \A k \in 1..Len(scoredResults) :
            Len(scoredResults) <= TopResults =>
              \E j \in 1..Len(ranked) : ranked[j] = scoredResults[k]

\* the model call failed for a file of the first batch and succeeded for
\* another file of that batch and for a file of the second batch
C11_Witness ==
  /\ rpc = "done"
  /\ \E k \in 1..batchSize, o \in 1..batchSize :
       /\ o <= Len(llmOutcome) /\ k <= Len(llmOutcome)
       /\ ~llmOutcome[k].ok
       /\ llmOutcome[o].ok
       /\ \E j \in 1..Len(ranked) : ranked[j].file = k
  /\ Len(llmOutcome) > batchSize
  /\ llmOutcome[batchSize + 1].ok

\* C12: a search whose summary generation (generateSearchResponse) has failed
\* after the ranking still answers with the ranked results: success with the
\* code_search response on POST search, 'results' and 'complete' and no
\* 'error' event on search/stream.
C12_SummaryFailureKeepsResults ==
  (failedAt = "generateSearchResponse" /\ spc = "done") =>
    /\ searchResult.responseType = "code_search"
    /\ searchResult.totalFound = rawCount
    /\ IF endpoint = "POST search"
         THEN body.success /\ body.data = searchResult
         ELSE /\ \E j \in 1..Len(sse) : sse[j].event = "results"
              /\ \A j \in 1..Len(sse) : sse[j].event # "error"

\* a directory that holds dependencies, version-control data or build output
NoiseDirs == {<<"node_modules">>, <<".", "git">>, <<"vendor">>, <<"build">>,
              <<"dist">>}

\* the path lies under a noise directory
UnderNoiseDir(path) ==
  \E d \in NoiseDirs :
    \/ (Len(path) > Len(d) /\ SubSeq(path, 1, Len(d) + 1) = d \o <<"/">>)
    \/ Includes(path, <<"/">> \o d \o <<"/">>)

\* the tree of the end-to-end example
ExampleTree ==
  << Blob(<<"package", ".", "json">>),
     Blob(<<"src", "/", "index", ".", "ts">>),
     Blob(<<"node_modules", "/", "x", "/", "index", ".", "js">>),
     Blob(<<"README", ".", "md">>) >>

\* C13: no path returned by getImportantFiles lies under a noise directory,
\* and for the example tree the result is package.json, README.md,
\* src/index.ts.
C13_NoNoisePaths ==
  fpc = "done" =>
    /\ \A i \in 1..Len(important) : ~UnderNoiseDir(important[i])
    /\ tree = ExampleTree =>
         important = << <<"package", ".", "json">>, <<"README", ".", "md">>,
                        <<"src", "/", "index", ".", "ts">> >>

\* C14: at most 30 of the returned paths are medium-priority ones (paths
\* that match no high-priority pattern), and every blob of the tree whose
\* path matches a high-priority pattern is returned, however many there are.
C14_CapSparesHighPriority ==
  fpc = "done" =>
    /\ Cardinality({i \in 1..Len(important) :
                      ~SomeTest(importantPatterns, important[i])}) <= 30
    /\ \A k \in 1..Len(tree) :
         (tree[k].type = "blob" /\ SomeTest(importantPatterns, tree[k].path)) =>
           \E i \in 1..Len(important) : important[i] = tree[k].path

\* a tree with more than 30 high-priority and more than 30 medium-priority
\* blobs has been cut to 30 medium-priority paths
C14_Witness ==
  /\ fpc = "done"
  /\ Cardinality({k \in 1..Len(tree) :
                    SomeTest(importantPatterns, tree[k].path)}) > 30
  /\ Cardinality({k \in 1..Len(tree) :
                    /\ ~SomeTest(importantPatterns, tree[k].path)
                    /\ SomeTest(mediumImportancePatterns, tree[k].path)
                    /\ ~UnderNoiseDir(tree[k].path)}) > 30
  /\ Cardinality({i \in 1..Len(important) :
                    ~SomeTest(importantPatterns, important[i])}) = 30

\* C15: the list returned for a tree (whose paths are distinct) holds no
\* path twice.
C15_NoDuplicates ==
  fpc = "done" =>
    \A i, j \in 1..Len(important) : important[i] = important[j] => i = j

\* a path that matches both a high-priority and the medium-priority pattern
\* (src/index.ts) has been returned, together with medium-priority paths
C15_Witness ==
  /\ fpc = "done"
  /\ \E i \in 1..Len(important) :
       /\ SomeTest(importantPatterns, important[i])
       /\ SomeTest(mediumImportancePatterns, important[i])
  /\ \E i \in 1..Len(important) : ~SomeTest(importantPatterns, important[i])

\* C16: every score of calculateBasicMatchScore, calculateImportMatchScore
\* and calculateCommentMatchScore lies in [0, 100].
C16_ScoresInRange ==
  mpc # "idle" =>
    \A f \in {"basic", "import", "comment"} : scores[f] \in 0..100

\* an element whose basic and import scores would exceed 100 without the
\* clamp has been scored 100
C16_Witness ==
  /\ mpc = "scored"
  /\ BasicRawScore(element, searchPatterns, originalQuery) > 100
  /\ ImportRawScore(element, searchPatterns, originalQuery) > 100
  /\ scores.basic = 100
  /\ scores.import = 100

\* C17: after a search term that was not found in the element's text has
\* been added to it, with the patterns and the query unchanged, none of the
\* three scores is smaller than before.
C17_ScoresMonotonic ==
  mpc = "rescored" =>
    \A f \in {"basic", "import", "comment"} : scores[f] >= prevScores[f]

\* a search term has been added to an element and its scores have risen
C17_Witness ==
  /\ mpc = "rescored"
  /\ scores.basic > prevScores.basic
  /\ scores.comment > prevScores.comment
  /\ \E i \in 1..Len(searchPatterns.searchTerms) :
       Includes(LowerCase(element.text), LowerCase(searchPatterns.searchTerms[i]))

\* C18: a request for a repository id that is not in the store never gets
\* past the repository lookup: it creates no Analysis record, reaches no
\* stage that calls a collaborator, ends with the error 'Repository not
\* found' (in the answer of POST :id/analyze, as the rejection of the
\* streamed run, which has delivered no progress) and the lookup is not
\* repeated.
C18_NotFoundIsTerminal ==
  \A p \in Procs :
    (kind[p] # "none" /\ repoOf[p] \notin StoredRepos) =>
      /\ pc[p] \in {"sa_findUnique", "ws_findUnique", "ctl_rejected", "done"}
      /\ myId[p] = 0
      /\ \A i \in 1..Len(analyses) :
           analyses[i].createdBy # reqNo[p] /\ analyses[i].repositoryId # repoOf[p]
      /\ sumRes[p] = InitSum
      /\ pc[p] \in {"ctl_rejected", "done"} => err[p] = ErrNotFound
      /\ (pc[p] = "done" /\ kind[p] = "start") =>
           /\ response[p].message = "Failed to start analysis: Repository not found"
           /\ outcome[p] = "none"
      /\ (pc[p] = "done" /\ kind[p] = "stream") =>
           /\ outcome[p] = "rejected"
           /\ \A i \in 1..Len(events[p]) : events[p][i].event \notin {"status", "progress"}

\* both entry points have answered a request for a missing repository
C18_Witness ==
  \E p, o \in Procs :
    /\ repoOf[p] = "missing" /\ kind[p] = "start" /\ pc[p] = "done"
    /\ repoOf[o] = "missing" /\ kind[o] = "stream" /\ pc[o] = "done"
    /\ err[p] = ErrNotFound /\ err[o] = ErrNotFound

\* the code files among the fetched contents, and their lines
FetchedCodeFiles ==
  {i \in 1..Len(fileContents) :
     /\ fileContents[i].content > 0
     /\ fileContents[i].path[Len(fileContents[i].path)] \in codeExtensions}

RECURSIVE LinesOf(_)
LinesOf(idx) ==
  IF idx = {} THEN 0
  ELSE LET i == CHOOSE j \in idx : TRUE
       IN fileContents[i].content + LinesOf(idx \ {i})

\* C19: the complexity is 'high' when more than 50 code files or more than
\* 10000 lines were counted, otherwise 'medium' when more than 20 files or
\* more than 5000 lines were, otherwise 'low'.
C19_ComplexityClasses ==
  cpc = "done" =>
    LET n == Cardinality(FetchedCodeFiles)
        lines == LinesOf(FetchedCodeFiles)
    IN /\ codeMetrics.linesOfCode = lines
       /\ codeMetrics.complexity =
            IF n > 50 \/ lines > 10000 THEN "high"
            ELSE IF n > 20 \/ lines > 5000 THEN "medium"
            ELSE "low"

\* 60 code files with 4000 lines have been classified 'high'
C19_Witness ==
  /\ cpc = "done"
  /\ Cardinality(FetchedCodeFiles) = 60
  /\ codeMetrics.linesOfCode = 4000
  /\ codeMetrics.complexity = "high"

\* 10 code files with 6000 lines have been classified 'medium'
C19_WitnessMedium ==
  /\ cpc = "done"
  /\ Cardinality(FetchedCodeFiles) = 10
  /\ codeMetrics.linesOfCode = 6000
  /\ codeMetrics.complexity = "medium"

C20_WitnessOrdered ==
  /\ calls["detectIntent"] = 1
  /\ intentResult.intent = "code_search"
  /\ calls["searchFileAST"] > 0
  /\ calls["generateSearchResponse"] = 1

\* the ordered stages a streaming run has completed at each position: tree
\* fetch, file selection, content fetch, the three summarizers, AST and
\* metrics, summary, persistence
StagesCompleted ==
  [ws_tree |-> 0, ws_content |-> 2, ws_features |-> 3, ws_structure |-> 4,
   ws_techStack |-> 5, ws_ast |-> 6, ws_summary |-> 7, ws_complete |-> 8,
   ws_lastAnalyzed |-> 9, ctl_resolved |-> 9]

\* the events of a run that carry {step, totalSteps, message}
StepEvents(p) == SelectSeq(events[p], LAMBDA e : e.event = "status")

\* across a run the step indices start at 1 and are strictly increasing,
\* never exceed totalSteps, and totalSteps is the same in every event
StepsOrdered(p) ==
  LET st == StepEvents(p)
  IN /\ st # <<>> => st[1].step = 1
     /\ \A i \in 1..Len(st) :
          /\ st[i].step <= st[i].totalSteps
          /\ st[i].totalSteps = st[1].totalSteps
          /\ i > 1 => st[i].step > st[i - 1].step

\* C21: in a streaming run whose callbacks do not throw, every completed
\* stage has been followed by one progress event {stepIndex, totalSteps,
\* message}, so there are at least as many of them as completed stages, and
\* the step indices start at 1, strictly increase, never exceed totalSteps,
\* and totalSteps is the same in every event.
C21_EveryStageReportsProgress ==
  \A p \in Procs :
    ( /\ kind[p] = "stream"
      /\ pc[p] \in DOMAIN StagesCompleted
      /\ ~sinkFault[p] ) =>
      /\ Len(StepEvents(p)) >= StagesCompleted[pc[p]]
      /\ StepsOrdered(p)

\* C22: a file whose model call succeeded is pushed with
\* overallScore = 0.3 x (average of its heuristic match scores)
\* + 0.7 x modelScore, and keeps that score in the returned ranking; a file
\* with the matches 40/60/80 and the model score m gets 18 + 0.7 m.
C22_BlendedScore ==
  /\ \A k \in 1..Len(scoredResults) :
       llmOutcome[k].ok =>
         LET m == llmOutcome[k].score
             n == Len(rawResults[k])
         IN /\ 10 * n * scoredResults[k].overallScore =
                 ScoreScale * (3 * SumScores(rawResults[k]) + 7 * n * m)
            /\ rawResults[k] = <<80, 60, 40>> =>
                 10 * scoredResults[k].overallScore = ScoreScale * (180 + 7 * m)
  /\ \A j \in 1..Len(ranked) :
       ranked[j].overallScore = scoredResults[ranked[j].file].overallScore

\* a file with the matches 40/60/80 and the model score 90 has been ranked
\* with 18 + 63 = 81
C22_Witness ==
  /\ rpc = "done"
  /\ \E j \in 1..Len(ranked) :
       /\ ranked[j].matches = <<80, 60, 40>>
       /\ llmOutcome[ranked[j].file] = [ok |-> TRUE, score |-> 90]
       /\ ranked[j].overallScore = 81 * ScoreScale

FoundIn(list) ==
  Cardinality({i \in 1..Len(list) :
                 Includes(LowerCase(Stringify(element)), LowerCase(list[i]))})

\* C24: the basic score of an element is min(100, 50 if its name contains
\* the query case-insensitively, + 30 per search term, + 25 per code pattern,
\* + 20 per framework hint found in its serialized text); the element
\* loginWithGoogle with the text 'next-auth', 'session', the query
\* 'next-auth' and the search terms ['next-auth', 'session'] gets 60.
C24_BasicScoreFormula ==
  mpc \in {"scored", "rescored"} =>
    /\ scores.basic =
         Min(100,
             (IF /\ element.name # <<>>
                 /\ Includes(LowerCase(element.name), LowerCase(originalQuery))
                THEN 50 ELSE 0)
             + 30 * FoundIn(searchPatterns.searchTerms)
             + 25 * FoundIn(searchPatterns.codePatterns)
             + 20 * FoundIn(searchPatterns.frameworkHints))
    /\ ( /\ element.name = <<"login", "With", "Google">>
         /\ element.text = <<"next-auth", "session">>
         /\ originalQuery = <<"next-auth">>
         /\ searchPatterns = [searchTerms |-> << <<"next-auth">>, <<"session">> >>,
                              codePatterns |-> <<>>, frameworkHints |-> <<>>] )
         => scores.basic = 60

\* the element loginWithGoogle has been scored 60 for the query 'next-auth'
C24_Witness ==
  /\ mpc = "scored"
  /\ element.name = <<"login", "With", "Google">>
  /\ element.text = <<"next-auth", "session">>
  /\ originalQuery = <<"next-auth">>
  /\ searchPatterns.searchTerms = << <<"next-auth">>, <<"session">> >>
  /\ searchPatterns.codePatterns = <<>>
  /\ searchPatterns.frameworkHints = <<>>
  /\ scores.basic = 60

\* the elements of a category of the scanned file
CategoryElements(type) ==
  CASE type = "function" -> fileAst.functions
    [] type = "class" -> fileAst.classes
    [] type = "import" -> fileAst.imports
    [] type = "variable" -> fileAst.variables
    [] OTHER -> fileAst.comments

\* the minimum of each category as the specification gives it
CategoryMinimum ==
  [function |-> 20, class |-> 20, variable |-> 25, import |-> 30, comment |-> 15]

\* C25: every match searchFileAST returns has a score strictly greater than
\* the minimum of its category (function 20, class 20, variable 25, import
\* 30, comment 15), every scanned element whose score exceeds the minimum of
\* its category is returned as one match, and the matches are in
\* non-increasing order of score.
C25_ThresholdsAndOrder ==
  xpc = "done" =>
    /\ \A j \in 1..Len(fileMatches) :
         /\ fileMatches[j].score > CategoryMinimum[fileMatches[j].type]
         /\ j > 1 => fileMatches[j - 1].score >= fileMatches[j].score
    /\ \A t \in DOMAIN CategoryMinimum :
         LET els == CategoryElements(t)
             above == {i \in 1..Len(els) :
                         CategoryScore(t, els[i], filePatterns, fileQuery)
                           > CategoryMinimum[t]}
             returned == {j \in 1..Len(fileMatches) : fileMatches[j].type = t}
         IN /\ Cardinality(returned) = Cardinality(above)
            /\ \A i \in above : \E j \in returned :
                 /\ fileMatches[j].data = els[i]
                 /\ fileMatches[j].score =
                      CategoryScore(t, els[i], filePatterns, fileQuery)

\* a file whose function scored 25 is a match and whose variable scored 25
\* and function scored 20 are not, with matches of several categories
C25_Witness ==
  /\ xpc = "done"
  /\ fileAst.functions = <<HintElement, PatternElement>>
  /\ fileAst.variables = <<PatternElement, TermElement, HintElement>>
  /\ \E j \in 1..Len(fileMatches) :
       fileMatches[j].type = "function" /\ fileMatches[j].score = 25
  /\ \A j \in 1..Len(fileMatches) :
       /\ fileMatches[j].type = "function" => fileMatches[j].data # HintElement
       /\ fileMatches[j].type = "variable" => fileMatches[j].data = TermElement
  /\ \E j \in 1..Len(fileMatches) : fileMatches[j].type = "import"
  /\ \E j \in 1..Len(fileMatches) : fileMatches[j].type = "comment"
  /\ fileMatches[1].score > fileMatches[Len(fileMatches)].score

\* the rows of a repository with status COMPLETED, and the latest of them
CompletedRows(id) ==
  {i \in 1..Len(repoStore[id].analyses) :
     repoStore[id].analyses[i].status = "COMPLETED"}

LatestCompleted(id) ==
  repoStore[id].analyses[CHOOSE i \in CompletedRows(id) :
                           \A j \in CompletedRows(id) : j <= i]

\* every scanned file belongs to the latest COMPLETED Analysis of its
\* repository
ScansLatestCompleted ==
  \A k \in 1..Len(scannedFiles) :
    LET f == scannedFiles[k]
    IN /\ CompletedRows(f.repository) # {}
       /\ f.analysis = LatestCompleted(f.repository).id

\* no file of a repository excluded by repositoryIds or languages is scanned
ScansRequestedRepositories ==
  \A k \in 1..Len(scannedFiles) :
    LET f == scannedFiles[k]
    IN /\ searchQuery.repositoryIds # <<>> =>
            f.repository \in Elements(searchQuery.repositoryIds)
       /\ searchQuery.languages # <<>> =>
            repoStore[f.repository].language \in Elements(searchQuery.languages)

\* C28: every scanned file belongs to the latest COMPLETED Analysis of its
\* repository, and no file is scanned of a repository that the requested
\* repositoryIds, languages or complexity (compared with that latest
\* COMPLETED Analysis) exclude.
C28_ScansLatestCompletedOnly ==
  /\ ScansLatestCompleted
  /\ ScansRequestedRepositories
  /\ \A k \in 1..Len(scannedFiles) :
       ( /\ searchQuery.complexity # "none"
         /\ CompletedRows(scannedFiles[k].repository) # {} ) =>
         LatestCompleted(scannedFiles[k].repository).complexity
           = searchQuery.complexity

\* C29: every result searchASTData returns has at least one match, every
\* match score is in 1..100, and every overallScore that scoreAndRankResults
\* then computes, blended or fallback, is in [0, 100].
C29_ResultsHaveMatches ==
  /\ \A i \in 1..Len(rawFound) :
       /\ Len(rawFound[i].matches) >= 1
       /\ \A j \in 1..Len(rawFound[i].matches) :
            rawFound[i].matches[j].score \in 1..100
  /\ qpc = "done" =>
       /\ Len(foundScores) = Len(rawFound)
       /\ \A i \in 1..Len(foundScores) :
            foundScores[i] \in 0..(100 * ScoreScale)

\* a file without a match was scanned and left out, and the two results of
\* the scan were scored by the try block and by the catch block
C29_Witness ==
  /\ qpc = "done"
  /\ Len(scannedFiles) > Len(rawFound)
  /\ Len(rawFound) = 2
  /\ foundScores[1] = BlendedScore(MatchScores(rawFound[1]), 100)
  /\ foundScores[2] = FallbackScore(MatchScores(rawFound[2]))

\* the artifacts astData.files holds for the file at position i
ArtifactsOf(i) ==
  {j \in 1..Len(astFiles) : astFiles[j].path = parseFiles[i].path}

\* the fallback artifact: empty arrays and parseSuccess = false
IsFallback(a) ==
  /\ a.parseSuccess = "false"
  /\ a.imports = <<>> /\ a.functions = <<>>
  /\ a.classes = <<>> /\ a.variables = <<>>

\* C26: whatever the parser did for the files before it, every supported
\* file with content that the loop has gone through has one artifact in
\* astData.files, a file whose parse failed or whose parser was unavailable
\* has the fallback artifact (empty arrays, parseSuccess = false), and
\* generateAST has not failed.
C26_ParseFailureIsLocal ==
  /\ Len(parseOutcome) = parseIndex
  /\ \A i \in 1..parseIndex :
       IF Skipped(astImpl, parseFiles[i])
         THEN ArtifactsOf(i) = {}
         ELSE /\ Cardinality(ArtifactsOf(i)) = 1
              /\ parseOutcome[i].kind \in {"threw", "unavailable"} =>
                   \A j \in ArtifactsOf(i) : IsFallback(astFiles[j])

\* with the Tree-sitter generateAST the claim of C26 holds
TreeSitterParseFailureIsLocal ==
  astImpl = "treeSitter" => C26_ParseFailureIsLocal


\* ------------------------------------------------------------------- C27
\* the attempts that failed
FailedAttempts == {i \in 1..Len(attempts) : attempts[i].kind = "error"}

\* the failed attempts that were followed by another attempt, or will be
\* when the timeout fires
FollowedAttempts ==
  {i \in FailedAttempts : i < Len(attempts) \/ lpc \in {"waiting", "calling"}}

\* what holds of a call of generate at every moment: at most maxRetries
\* attempts, no attempt after a successful one, one timeout for each failed
\* attempt that another attempt follows, a return only with the result of
\* a successful attempt, an error after the last failed attempt
RetryDiscipline ==
  lpc # "idle" =>
    /\ Len(attempts) <= maxRetries
    /\ \A i \in 1..Len(attempts) :
         attempts[i].kind = "value" => i = Len(attempts) /\ lpc = "returned"
    /\ Len(delays) = Cardinality(FollowedAttempts)
    /\ lpc = "waiting" => Len(attempts) < maxRetries
    /\ lpc = "returned" =>
         /\ attempts # <<>>
         /\ llmResult = attempts[Len(attempts)]
         /\ llmResult.kind = "value"
    /\ lpc = "threw" =>
         /\ llmResult.kind = "error"
         /\ FailedAttempts = 1..Len(attempts)
         /\ attempts # <<>> => Len(attempts) = maxRetries

\* C27: LLMService.generate makes at most maxRetries attempts (3 by
\* default), returns on the first successful attempt without another
\* attempt, waits a backoff delay only between a failed attempt and the next
\* one, raises an error after the last failed attempt (never an empty
\* result in its place), and terminates when every provider call returns.
C27_BoundedRetries ==
  /\ []RetryDiscipline
  /\ <>(lpc \in {"returned", "threw"})

\* all three attempts of a call with the default maxRetries failed: two
\* timeouts were waited for and the call threw
C27_Witness ==
  /\ lpc = "threw"
  /\ llmImpl = "generate"
  /\ maxRetries = DefaultMaxRetries
  /\ Len(attempts) = DefaultMaxRetries
  /\ delays = <<2 * DelayMs, 4 * DelayMs>>
  /\ llmResult.kind = "error"

\* the second attempt of a call succeeded with an empty text: one timeout,
\* and the empty text is returned
C27_WitnessReturned ==
  /\ lpc = "returned"
  /\ Len(attempts) = 2
  /\ Len(delays) = 1
  /\ llmResult = Returned("")


\* ------------------------------------------------------------------- C30
\* the runs that took the step
Stepped == {p \in Procs : pc'[p] # pc[p]}

\* the Analysis record of index i was created by the run of p
CreatedBy(i, p) ==
  /\ myId[p] = i
  /\ reqNo[p] # 0
  /\ analyses[i].createdBy = reqNo[p]

\* every step that changes an Analysis record is a step of the run that
\* created it
OwnAnalysisOnly ==
  \A i \in 1..Len(analyses) :
    analyses'[i] # analyses[i] => \E p \in Stepped : CreatedBy(i, p)

\* every step that writes lastAnalyzed of a repository is a step of a run
\* of that repository whose own record is COMPLETED in the store
LastAnalyzedAfterCompleted ==
  \A r \in StoredRepos :
    lastAnalyzed'[r] # lastAnalyzed[r] =>
      \E p \in Stepped :
        /\ repoOf[p] = r
        /\ myId[p] # 0
        /\ CreatedBy(myId[p], p)
        /\ analyses[myId[p]].status = "COMPLETED"
        /\ lastAnalyzed'[r] = myId[p]

\* C30: a pipeline run updates only the Analysis record it created itself
\* and lastAnalyzed of its own Repository; however the runs interleave, no
\* run changes a record another run created, and lastAnalyzed is written
\* only after the COMPLETED update of that run has been persisted.
C30_RunsWriteOnlyTheirOwn ==
  [][OwnAnalysisOnly /\ LastAnalyzedAfterCompleted]_vars

\* two runs of one repository have interleaved: one has completed and
\* written lastAnalyzed while the record of the other is still as created
C30_Witness ==
  \E p, q \in Procs :
    /\ p # q
    /\ repoOf[p] = repoOf[q]
    /\ myId[p] # 0 /\ myId[q] # 0
    /\ myId[p] < myId[q]
    /\ analyses[myId[p]].status = "COMPLETED"
    /\ analyses[myId[p]].writes = 2
    /\ lastAnalyzed[repoOf[p]] = myId[p]
    /\ analyses[myId[q]].status = "IN_PROGRESS"
    /\ analyses[myId[q]].writes = 1

====
